---------------------------- MODULE Spec2Model ----------------------------
(***************************************************************************)
(* Compliance Risk & Audit Engine of the KYC/AML compliance assistant:     *)
(* the rule-based risk scorer (RAG/risk_scoring.py) and the append-only    *)
(* audit logger (RAG/audit_logger.py).                                     *)
(*                                                                         *)
(* Strings that the code inspects character by character (query texts and  *)
(* keywords) are sequences of one-character strings.  Other strings are    *)
(* opaque values.  A Python dict is a function whose DOMAIN is its key set. *)
(***************************************************************************)
EXTENDS Integers, Sequences, FiniteSets, TLC

VARIABLES
  input,      \* the scorer under study and its input: a transaction dict or a query string
  txnRes,     \* the results of the successive calculate_transaction_risk calls on input
  qRes,       \* the results of the successive analyze_query_risk calls on input
  clock,      \* the reading datetime.now() gives at this moment
  files,      \* the four log partitions: kind -> sequence of lines
  written,    \* history: kind -> the entries the log_* operations appended, in order
  calls,      \* history: the log_* calls made, with arguments, clock reading and result
  exported,   \* the documents written by export_audit_trail so far
  ret,        \* what the last AuditLogger operation did and returned
  nops,       \* number of lines appended and of exports written so far
  batch,      \* BatchProcessor.process_csv_queries: rows read, results, errors, outcome
  tail,       \* kind -> what was written to the partition after its last newline
  threads,    \* the position of each thread inside the operation it is running
  monitor,    \* the fields of the PerformanceMonitor
  recorded,   \* history: the durations handed to each record_*_time, hits and misses
  metrics,    \* the last result of get_metrics
  pct,        \* a list handed to _percentile and the values returned for it
  collection, \* the vector store: source name -> number of chunks stored
  dash        \* the last result of ComplianceDashboard.get_compliance_score

vars == <<input, txnRes, qRes, clock, files, written, calls, exported, ret, nops,
          batch, tail, threads, monitor, recorded, metrics, pct, collection, dash>>

riskVars == <<input, txnRes, qRes>>
auditVars == <<files, written, calls, exported, ret, nops>>
batchVars == <<batch>>
threadVars == <<tail, threads>>
monitorVars == <<monitor, recorded, metrics, pct>>
dashVars == <<collection, dash>>
serviceVars == <<batchVars, threadVars, monitorVars, dashVars>>

-----------------------------------------------------------------------------
(* Bounds of the model *)

MaxCalls == 2    \* calls of a scorer on one input
MaxFrags == 2    \* text fragments concatenated into one query text
MaxClock == 1    \* ticks of the wall clock
MaxOps == 2      \* files changed by the whole logger (lines appended, exports written)
MaxLines == 3    \* lines added to the query partition when it is studied alone
MaxLimit == 2    \* largest limit, below the default, handed to a read-back

-----------------------------------------------------------------------------
(* Generic helpers *)

None == "None"

Min(a, b) == IF a <= b THEN a ELSE b
Max(a, b) == IF a >= b THEN a ELSE b

\* dict.get(key, default)
Get(d, key, default) == IF key \in DOMAIN d THEN d[key] ELSE default

\* seq[-n:] for n > 0, seq[a:] in general is SubSeq(seq, a + 1, Len(seq))
RECURSIVE Concat(_)
Concat(ss) == IF ss = <<>> THEN <<>> ELSE Head(ss) \o Concat(Tail(ss))

\* datetime.isoformat(): the text of a clock reading
isoformat(t) == <<"iso", t>>

-----------------------------------------------------------------------------
(* risk_scoring.py: rule tables *)

HIGH_RISK_COUNTRIES ==
  {"Afghanistan", "Iran", "North Korea", "Syria", "Yemen",
   "Myanmar", "Cuba", "Sudan", "Venezuela"}

HIGH_RISK_KEYWORDS ==
  << <<"s","a","n","c","t","i","o","n">>,
     <<"t","e","r","r","o","r","i","s","t">>,
     <<"t","e","r","r","o","r","i","s","m">>,
     <<"f","r","a","u","d">>,
     <<"l","a","u","n","d","e","r","i","n","g">>,
     <<"m","o","n","e","y"," ","l","a","u","n","d","e","r","i","n","g">>,
     <<"s","h","e","l","l"," ","c","o","m","p","a","n","y">>,
     <<"o","f","f","s","h","o","r","e">>,
     <<"p","e","p">>,
     <<"p","o","l","i","t","i","c","a","l","l","y"," ","e","x","p","o","s","e","d">>,
     <<"b","l","a","c","k","l","i","s","t">>,
     <<"w","a","t","c","h","l","i","s","t">> >>

MEDIUM_RISK_KEYWORDS ==
  << <<"c","a","s","h">>,
     <<"c","r","y","p","t","o","c","u","r","r","e","n","c","y">>,
     <<"b","i","t","c","o","i","n">>,
     <<"a","n","o","n","y","m","o","u","s">>,
     <<"b","e","a","r","e","r">>,
     <<"s","t","r","u","c","t","u","r","i","n","g">>,
     <<"s","m","u","r","f","i","n","g">>,
     <<"l","a","y","e","r","i","n","g">>,
     <<"p","l","a","c","e","m","e","n","t">> >>

-----------------------------------------------------------------------------
(* risk_scoring.py: calculate_transaction_risk *)

\* A running state of the function body: the score and the flags so far.
Add(acc, points, flag) ==
  [risk_score |-> acc.risk_score + points, flags |-> Append(acc.flags, flag)]

\* lines 49-56
AmountRuleStrict(acc, transaction_data) ==
  LET amount == Get(transaction_data, "amount", 0) IN
  IF amount > 50000 THEN Add(acc, 35, <<"High-value transaction", amount>>)
  ELSE IF amount > 10000 THEN Add(acc, 20, <<"Medium-value transaction", amount>>)
  ELSE acc

AmountRule(acc, transaction_data) ==
  LET amount == Get(transaction_data, "amount", 0) IN
  IF amount >= 50000 THEN Add(acc, 35, <<"High-value transaction", amount>>)
  ELSE IF amount >= 10000 THEN Add(acc, 20, <<"Medium-value transaction", amount>>)
  ELSE acc

\* lines 58-65
VelocityRule(acc, transaction_data) ==
  LET count_24h == Get(transaction_data, "count_24h", 0) IN
  IF count_24h > 20 THEN Add(acc, 30, <<"Very high velocity", count_24h>>)
  ELSE IF count_24h > 10 THEN Add(acc, 15, <<"High velocity", count_24h>>)
  ELSE acc

\* lines 67-71
GeographicRule(acc, transaction_data) ==
  LET country == Get(transaction_data, "country", "") IN
  IF country \in HIGH_RISK_COUNTRIES
  THEN Add(acc, 25, <<"High-risk jurisdiction", country>>)
  ELSE acc

\* lines 73-76
CashRule(acc, transaction_data) ==
  IF Get(transaction_data, "is_cash", FALSE) = TRUE
  THEN Add(acc, 15, <<"Cash transaction">>)
  ELSE acc

\* lines 78-82
CustomerTypeRule(acc, transaction_data) ==
  LET amount == Get(transaction_data, "amount", 0) IN
  IF Get(transaction_data, "customer_type", None) = "corporate"
  THEN IF amount < 1000
       THEN Add(acc, 10, <<"Unusual small corporate transaction">>)
       ELSE acc
  ELSE acc

\* line 85
CapUncapped(risk_score) == risk_score

Cap(risk_score) == Min(risk_score, 100)

\* lines 87-96
TransactionLevel(risk_score) ==
  IF risk_score >= 70
  THEN [risk_level |-> "HIGH", action |-> "Enhanced Due Diligence Required"]
  ELSE IF risk_score >= 40
  THEN [risk_level |-> "MEDIUM", action |-> "Standard Due Diligence Required"]
  ELSE [risk_level |-> "LOW", action |-> "Normal Processing"]

\* The whole function; now is the reading of datetime.now() at line 103.
calculate_transaction_risk_ClockInAction(transaction_data, now) ==
  LET a0 == [risk_score |-> 0, flags |-> <<>>]
      a1 == AmountRule(a0, transaction_data)
      a2 == VelocityRule(a1, transaction_data)
      a3 == GeographicRule(a2, transaction_data)
      a4 == CashRule(a3, transaction_data)
      a5 == CustomerTypeRule(a4, transaction_data)
      risk_score == Cap(a5.risk_score)
      lvl == TransactionLevel(risk_score)
  IN [risk_score |-> risk_score,
      risk_level |-> lvl.risk_level,
      flags |-> a5.flags,
      recommended_action |-> <<lvl.action, isoformat(now)>>,
      timestamp |-> isoformat(now)]

calculate_transaction_risk(transaction_data, now) ==
  LET a0 == [risk_score |-> 0, flags |-> <<>>]
      a1 == AmountRule(a0, transaction_data)
      a2 == VelocityRule(a1, transaction_data)
      a3 == GeographicRule(a2, transaction_data)
      a4 == CashRule(a3, transaction_data)
      a5 == CustomerTypeRule(a4, transaction_data)
      risk_score == Cap(a5.risk_score)
      lvl == TransactionLevel(risk_score)
  IN [risk_score |-> risk_score,
      risk_level |-> lvl.risk_level,
      flags |-> a5.flags,
      recommended_action |-> lvl.action,
      timestamp |-> isoformat(now)]

-----------------------------------------------------------------------------
(* risk_scoring.py: analyze_query_risk *)

UpperCase == <<"A","B","C","D","E","F","G","H","I","J","K","L","M","N","O","P","Q","R","S","T","U","V","W","X","Y","Z">>
LowerCase == <<"a","b","c","d","e","f","g","h","i","j","k","l","m","n","o","p","q","r","s","t","u","v","w","x","y","z">>

\* str.lower()
lower(s) ==
  [i \in 1..Len(s) |->
     IF \E j \in 1..Len(UpperCase) : UpperCase[j] = s[i]
     THEN LowerCase[CHOOSE j \in 1..Len(UpperCase) : UpperCase[j] = s[i]]
     ELSE s[i]]

\* keyword in text
In(keyword, text) ==
  \E i \in 1..(Len(text) - Len(keyword) + 1) :
     SubSeq(text, i, i + Len(keyword) - 1) = keyword

\* One of the two loops at lines 123-132: every keyword of the list that occurs
\* in the text adds points and is recorded.
RECURSIVE ScanKeywords(_, _, _, _)
ScanKeywords(keywords, text, points, acc) ==
  IF keywords = <<>> THEN acc
  ELSE LET keyword == Head(keywords)
           next == IF In(keyword, text)
                   THEN [risk_score |-> acc.risk_score + points,
                         keywords_found |-> Append(acc.keywords_found, keyword)]
                   ELSE acc
       IN ScanKeywords(Tail(keywords), text, points, next)

\* lines 117-132
MatchKeywordsCaseSensitive(query) ==
  LET a0 == [risk_score |-> 0, keywords_found |-> <<>>]
      a1 == ScanKeywords(HIGH_RISK_KEYWORDS, query, 15, a0)
  IN ScanKeywords(MEDIUM_RISK_KEYWORDS, query, 8, a1)

MatchKeywords(query) ==
  LET query_lower == lower(query)
      a0 == [risk_score |-> 0, keywords_found |-> <<>>]
      a1 == ScanKeywords(HIGH_RISK_KEYWORDS, query_lower, 15, a0)
  IN ScanKeywords(MEDIUM_RISK_KEYWORDS, query_lower, 8, a1)

\* lines 140-149
QueryLevelUnified(risk_score) ==
  IF risk_score >= 70 THEN [risk_level |-> "HIGH", alert |-> TRUE]
  ELSE IF risk_score >= 40 THEN [risk_level |-> "MEDIUM", alert |-> FALSE]
  ELSE [risk_level |-> "LOW", alert |-> FALSE]

QueryLevel(risk_score) ==
  IF risk_score >= 50 THEN [risk_level |-> "HIGH", alert |-> TRUE]
  ELSE IF risk_score >= 25 THEN [risk_level |-> "MEDIUM", alert |-> FALSE]
  ELSE [risk_level |-> "LOW", alert |-> FALSE]

analyze_query_risk(query) ==
  LET m == MatchKeywords(query)
      flags == IF m.keywords_found # <<>>
               THEN << <<"Risk keywords detected", m.keywords_found>> >>
               ELSE <<>>
      risk_score == Min(m.risk_score, 100)
      lvl == QueryLevel(risk_score)
  IN [risk_score |-> risk_score,
      risk_level |-> lvl.risk_level,
      flags |-> flags,
      keywords_found |-> m.keywords_found,
      requires_alert |-> lvl.alert]

-----------------------------------------------------------------------------
(* Inputs of the scorers *)

AmountValues == {0, 999, 1000, 9999, 10000, 49999, 50000, 55000}
CountValues == {10, 11, 15, 20, 21}
CountryValues == {"Iran", "India"}
CustomerTypes == {"individual", "corporate"}

FullTransactions ==
  [amount : AmountValues, country : CountryValues, count_24h : CountValues,
   customer_type : CustomerTypes, is_cash : BOOLEAN]

TransactionFields == {"amount", "country", "count_24h", "customer_type", "is_cash"}

\* The test transaction of the module's example (lines 194-201).
test_transaction ==
  [amount |-> 55000, currency |-> "USD", country |-> "Iran", count_24h |-> 15,
   customer_type |-> "individual", is_cash |-> TRUE]

\* Every dict that carries any subset of the fields the function reads, and
\* the example, which carries a field it does not read.
TransactionInputs ==
  {[k \in S |-> t[k]] : t \in FullTransactions, S \in SUBSET TransactionFields}
    \cup {test_transaction}

Fragments ==
  { <<"t","e","r","r","o","r","i","s","t">>,
    <<"T","E","R","R","O","R","I","S","M">>,
    <<"M","o","n","e","y"," ","L","a","u","n","d","e","r","i","n","g">>,
    <<"s","h","e","l","l">>,
    <<" ","c","o","m","p","a","n","y">>,
    <<"s","a","n","c","t","i","o","n"," ","f","r","a","u","d"," ","o","f","f","s","h","o","r","e"," ","p","e","p"," ","b","l","a","c","k","l","i","s","t">>,
    <<"C","a","s","h"," ","b","i","t","c","o","i","n"," ","b","e","a","r","e","r">>,
    <<"k","y","c"," ","r","u","l","e","s">> }

\* The test query of the module's example (line 207).
test_query ==
  <<"W","h","a","t"," ","a","r","e"," ","t","h","e"," ","r","e","q","u","i","r","e","m","e","n","t","s"," ","f","o","r"," ","t","e","r","r","o","r","i","s","t"," ","f","i","n","a","n","c","i","n","g"," ","d","e","t","e","c","t","i","o","n","?">>

QueryTexts ==
  {Concat(fs) : fs \in UNION {[1..n -> Fragments] : n \in 0..MaxFrags}}
    \cup {test_query}

-----------------------------------------------------------------------------
(* The scorers as a state machine: an input is fixed, then scored repeatedly *)
(* while the wall clock moves on.                                           *)

InitAuditIdle ==
  /\ files = [k \in {"query", "access", "alert", "document"} |-> <<>>]
  /\ written = [k \in {"query", "access", "alert", "document"} |-> <<>>]
  /\ calls = <<>>
  /\ exported = [path |-> <<"None">>, data |-> <<>>]
  /\ ret = [op |-> "none"]
  /\ nops = 0

\* the components that a specification leaves out of use
InitServicesIdle ==
  /\ batch = <<>>
  /\ tail = <<>>
  /\ threads = <<>>
  /\ monitor = <<>>
  /\ recorded = <<>>
  /\ metrics = <<>>
  /\ pct = <<>>
  /\ collection = <<>>
  /\ dash = <<>>

InitRisk ==
  /\ \/ input \in [scorer : {"transaction"}, data : TransactionInputs]
     \/ input \in [scorer : {"query"}, data : QueryTexts]
  /\ txnRes = <<>>
  /\ qRes = <<>>
  /\ clock = 0
  /\ InitAuditIdle
  /\ InitServicesIdle

\* Time passes between two calls.
Tick ==
  /\ clock < MaxClock
  /\ clock' = clock + 1
  /\ UNCHANGED <<riskVars, auditVars, serviceVars>>

CallTransactionRisk ==
  /\ input.scorer = "transaction"
  /\ Len(txnRes) < MaxCalls
  /\ txnRes' = Append(txnRes, calculate_transaction_risk(input.data, clock))
  /\ UNCHANGED <<input, qRes, clock, auditVars, serviceVars>>

CallQueryRisk ==
  /\ input.scorer = "query"
  /\ Len(qRes) < MaxCalls
  /\ qRes' = Append(qRes, analyze_query_risk(input.data))
  /\ UNCHANGED <<input, txnRes, clock, auditVars, serviceVars>>

NextRisk == Tick \/ CallTransactionRisk \/ CallQueryRisk

SpecRisk == InitRisk /\ [][NextRisk]_vars

-----------------------------------------------------------------------------
(* Properties of the scorers *)

Range(f) == {f[i] : i \in DOMAIN f}

\* C1: every result of calculate_transaction_risk has a risk_score in [0,100],
\* and its risk_level is HIGH iff risk_score >= 70, MEDIUM iff
\* 40 <= risk_score < 70, LOW iff risk_score < 40.
C1_ScoreRangeAndLevel ==
  \A i \in DOMAIN txnRes :
    LET r == txnRes[i] IN
    /\ r.risk_score \in 0..100
    /\ (r.risk_level = "HIGH") <=> (r.risk_score >= 70)
    /\ (r.risk_level = "MEDIUM") <=> (r.risk_score >= 40 /\ r.risk_score < 70)
    /\ (r.risk_level = "LOW") <=> (r.risk_score < 40)

\* A transaction whose rules add up to more than 100 (35 + 30 + 25 + 15) was scored.
C1_Witness ==
  /\ input.scorer = "transaction"
  /\ txnRes # <<>>
  /\ Len(txnRes[1].flags) = 4
  /\ "amount" \in DOMAIN input.data /\ input.data.amount >= 50000
  /\ "count_24h" \in DOMAIN input.data /\ input.data.count_24h > 20
  /\ txnRes[1].risk_score = 100
  /\ txnRes[1].risk_level = "HIGH"

\* The contributions of the five rules as the claim C2 states them.
ContribA(d) ==
  LET amount == IF "amount" \in DOMAIN d THEN d.amount ELSE 0 IN
  IF amount >= 50000 THEN 35
  ELSE IF amount >= 10000 /\ amount < 50000 THEN 20 ELSE 0
ContribV(d) ==
  LET n == IF "count_24h" \in DOMAIN d THEN d.count_24h ELSE 0 IN
  IF n > 20 THEN 30 ELSE IF n > 10 /\ n <= 20 THEN 15 ELSE 0
ContribJ(d) ==
  IF "country" \in DOMAIN d /\ d.country \in HIGH_RISK_COUNTRIES THEN 25 ELSE 0
ContribC(d) ==
  IF "is_cash" \in DOMAIN d /\ d.is_cash THEN 15 ELSE 0
ContribK(d) ==
  LET amount == IF "amount" \in DOMAIN d THEN d.amount ELSE 0 IN
  IF "customer_type" \in DOMAIN d /\ d.customer_type = "corporate" /\ amount < 1000
  THEN 10 ELSE 0

\* The rule a flag text belongs to.
FlagRule(flag) ==
  CASE flag[1] \in {"High-value transaction", "Medium-value transaction"} -> "amount"
    [] flag[1] \in {"Very high velocity", "High velocity"} -> "velocity"
    [] flag[1] = "High-risk jurisdiction" -> "jurisdiction"
    [] flag[1] = "Cash transaction" -> "cash"
    [] flag[1] = "Unusual small corporate transaction" -> "corporate"

ContributingRules(d) ==
  LET c == <<ContribA(d), ContribV(d), ContribJ(d), ContribC(d), ContribK(d)>>
      names == <<"amount", "velocity", "jurisdiction", "cash", "corporate">>
      RECURSIVE pick(_)
      pick(i) == IF i > 5 THEN <<>>
                 ELSE (IF c[i] # 0 THEN <<names[i]>> ELSE <<>>) \o pick(i + 1)
  IN pick(1)

\* C2: risk_score = min(100, A + V + J + C + K) and the flags are one per
\* non-zero contribution, in the order amount, velocity, jurisdiction, cash,
\* corporate.
C2_WeightedSumAndFlags ==
  \A i \in DOMAIN txnRes :
    LET r == txnRes[i]
        d == input.data
        sum == ContribA(d) + ContribV(d) + ContribJ(d) + ContribC(d) + ContribK(d)
    IN /\ r.risk_score = (IF sum > 100 THEN 100 ELSE sum)
       /\ [j \in DOMAIN r.flags |-> FlagRule(r.flags[j])] = ContributingRules(d)

\* The example transaction of the module (lines 194-203) scored 90, HIGH.
C2_Witness ==
  /\ input.scorer = "transaction"
  /\ input.data = test_transaction
  /\ txnRes # <<>>
  /\ txnRes[1].risk_score = 90
  /\ txnRes[1].risk_level = "HIGH"
  /\ Len(txnRes[1].flags) = 4

\* The keywords of a list that occur in the lower-cased text, as a set.
Matched(keywords, text) ==
  LET low == lower(text) IN {k \in Range(keywords) : In(k, low)}

\* C3: risk_score = min(100, 15 * H + 8 * M) with H and M the numbers of
\* distinct high-tier and medium-tier keywords occurring in the text, case
\* ignored; a text matching only "terrorist" scores 15.
C3_KeywordScore ==
  \A i \in DOMAIN qRes :
    LET r == qRes[i]
        high == Matched(HIGH_RISK_KEYWORDS, input.data)
        medium == Matched(MEDIUM_RISK_KEYWORDS, input.data)
        H == Cardinality(high)
        M == Cardinality(medium)
    IN /\ r.risk_score = (IF 15 * H + 8 * M > 100 THEN 100 ELSE 15 * H + 8 * M)
       /\ Range(r.keywords_found) = high \cup medium
       /\ Len(r.keywords_found) = H + M
       /\ (r.keywords_found = << HIGH_RISK_KEYWORDS[2] >>) => r.risk_score = 15
       /\ (input.data = test_query) => r.risk_score = 15

\* "Money Laundering" twice, in capitals: "laundering" and "money laundering"
\* each count once.
C3_Witness ==
  /\ input.scorer = "query"
  /\ qRes # <<>>
  /\ Len(input.data) = 32
  /\ qRes[1].keywords_found = << HIGH_RISK_KEYWORDS[5], HIGH_RISK_KEYWORDS[6] >>
  /\ qRes[1].risk_score = 30

\* C4: the query level is HIGH iff risk_score >= 50, MEDIUM iff
\* 25 <= risk_score < 50, LOW iff risk_score < 25; requires_alert iff
\* risk_score >= 50 iff the level is HIGH; and where the 70/40 thresholds of
\* calculate_transaction_risk would give another level, the query level differs
\* from it.
C4_QueryLevelAndAlert ==
  \A i \in DOMAIN qRes :
    LET r == qRes[i] IN
    /\ (r.risk_level = "HIGH") <=> (r.risk_score >= 50)
    /\ (r.risk_level = "MEDIUM") <=> (r.risk_score >= 25 /\ r.risk_score < 50)
    /\ (r.risk_level = "LOW") <=> (r.risk_score < 25)
    /\ r.requires_alert <=> (r.risk_score >= 50)
    /\ r.requires_alert <=> (r.risk_level = "HIGH")
    /\ (r.risk_score >= 50 /\ r.risk_score < 70) => r.risk_level # "MEDIUM"
    /\ (r.risk_score >= 25 /\ r.risk_score < 40) => r.risk_level # "LOW"

\* A query scored 54: HIGH with an alert, where the transaction thresholds
\* would say MEDIUM.
C4_Witness ==
  /\ input.scorer = "query"
  /\ qRes # <<>>
  /\ qRes[1].risk_score = 54
  /\ qRes[1].risk_level = "HIGH"
  /\ qRes[1].requires_alert
  /\ TransactionLevel(qRes[1].risk_score).risk_level = "MEDIUM"

WithoutTimestamp(r) == [k \in DOMAIN r \ {"timestamp"} |-> r[k]]

-----------------------------------------------------------------------------
(* audit_logger.py: values, JSON lines and files                             *)
(*                                                                           *)
(* A Python value carries its type: <<"None">>, <<"str", s>>, <<"int", n>>,  *)
(* <<"float", x>> (x in hundredths), <<"list", items>>, <<"dict", items>>.   *)
(* A dict keeps its insertion order: its items are <<key, value>> pairs.     *)
(* Strings that are hashed are sequences of characters.  A log entry is the  *)
(* item sequence of the dict the code builds.  The text of a line is a       *)
(* sequence of JSON tokens.                                                  *)

Kinds == {"query", "access", "alert", "document"}

PyNone == <<"None">>
PyStr(s) == <<"str", s>>
PyInt(n) == <<"int", n>>
PyFloat(x) == <<"float", x>>
PyList(items) == <<"list", items>>
PyDict(items) == <<"dict", items>>

\* dict.get(key, default) on a dict given by its items
ItemGet(items, key, default) ==
  IF \E i \in DOMAIN items : items[i][1] = key
  THEN items[CHOOSE i \in DOMAIN items : items[i][1] = key][2]
  ELSE default

\* json.dumps of one value
RECURSIVE json_value(_)
json_value(v) ==
  CASE v[1] = "None" -> <<"null">>
    [] v[1] = "str" -> <<"string", v[2]>>
    [] v[1] = "int" -> <<"number", "int", v[2]>>
    [] v[1] = "float" -> <<"number", "float", v[2]>>
    [] v[1] = "list" -> <<"array", [i \in DOMAIN v[2] |-> json_value(v[2][i])]>>
    [] v[1] = "dict" ->
         <<"object", [i \in DOMAIN v[2] |-> <<v[2][i][1], json_value(v[2][i][2])>>]>>

\* json.dumps(entry): the text of one JSON object, without a line break
json_dumps(entry) ==
  << <<"{">> >>
    \o [i \in DOMAIN entry |-> <<"member", entry[i][1], json_value(entry[i][2])>>]
    \o << <<"}">> >>

\* the Python value of one JSON value
RECURSIVE python_value(_)
python_value(j) ==
  CASE j[1] = "null" -> PyNone
    [] j[1] = "string" -> PyStr(j[2])
    [] j[1] = "number" -> IF j[2] = "int" THEN PyInt(j[3]) ELSE PyFloat(j[3])
    [] j[1] = "array" -> PyList([i \in DOMAIN j[2] |-> python_value(j[2][i])])
    [] j[1] = "object" ->
         PyDict([i \in DOMAIN j[2] |-> <<j[2][i][1], python_value(j[2][i][2])>>])

\* json.loads(text): the dict of a well-formed object, JSONDecodeError otherwise
json_loads(text) ==
  IF /\ Len(text) >= 2
     /\ text[1] = <<"{">>
     /\ text[Len(text)] = <<"}">>
     /\ \A i \in 2..(Len(text) - 1) : text[i][1] = "member"
  THEN [ok |-> TRUE,
        value |-> [i \in 1..(Len(text) - 2) |->
                     <<text[i + 1][2], python_value(text[i + 1][3])>>]]
  ELSE [ok |-> FALSE, value |-> "JSONDecodeError"]

\* str(datetime.now()) and strftime('%Y%m%d_%H%M%S'): texts of a clock reading
str_datetime(t) == << <<"datetime", t>> >>
strftime(t) == <<"%Y%m%d_%H%M%S", t>>

\* str(arg) for a str argument
str(arg) == arg[2]

\* hashlib.md5(content.encode()).hexdigest()[:12], taken to be free of collisions
hexdigest12(content) == <<"md5", content>>

\* lines 205-208
_generate_id(args, now) ==
  LET content == Concat([i \in DOMAIN args |-> str(args[i])]) \o str_datetime(now)
  IN hexdigest12(content)

\* seq[start:] of a Python list
SliceFrom(seq, start) ==
  LET n == Len(seq)
      from == IF start < 0 THEN Max(n + start, 0) ELSE Min(start, n)
  IN SubSeq(seq, from + 1, n)

\* lines 225-233: the loop over the lines of the file
RECURSIVE ReadEntriesStoppingAtCorrupt(_, _)
ReadEntriesStoppingAtCorrupt(lines, user_id) ==
  IF lines = <<>> THEN <<>>
  ELSE LET parsed == json_loads(Head(lines)) IN
       IF ~parsed.ok THEN <<>>
       ELSE IF user_id = PyNone \/ ItemGet(parsed.value, "user_id", PyNone) = user_id
       THEN <<parsed.value>> \o ReadEntriesStoppingAtCorrupt(Tail(lines), user_id)
       ELSE ReadEntriesStoppingAtCorrupt(Tail(lines), user_id)

\* every line is parsed; the lines that parse and pass the filter are kept, in order
ReadEntriesLoop(lines, user_id) ==
  LET parsed == [i \in DOMAIN lines |-> json_loads(lines[i])]
      kept == SelectSeq(parsed,
                LAMBDA q : /\ q.ok
                           /\ \/ user_id = PyNone
                              \/ ItemGet(q.value, "user_id", PyNone) = user_id)
  IN [i \in DOMAIN kept |-> kept[i].value]

ReadEntries(lines, user_id) == ReadEntriesLoop(lines, user_id)

_read_log_Whole(log_file, user_id, limit) == ReadEntries(files[log_file], user_id)

\* lines 222-223, 239-240: os.path.exists(log_file); a partition file exists
\* when its name is in the domain of files
exists(log_file) == log_file \in DOMAIN files

\* lines 215-236
_read_log(log_file, user_id, limit) ==
  IF ~exists(log_file) THEN <<>>
  ELSE LET entries == ReadEntries(files[log_file], user_id)
       IN SliceFrom(entries, 0 - limit)

\* lines 238-244, with the lines counted one by one only where they parse
_count_lines_WellFormed(log_file) ==
  IF ~exists(log_file) THEN 0 ELSE Len(ReadEntries(files[log_file], PyNone))

\* lines 238-244
_count_lines(log_file) ==
  IF ~exists(log_file) THEN 0 ELSE Len(files[log_file])

\* lines 210-213: open(log_file, 'a') and write one line
_write_log_Truncating(log_file, entry) ==
  files' = [files EXCEPT ![log_file] = <<json_dumps(entry)>>]

\* open(log_file, 'a') creates the file when it does not exist
_write_log(log_file, entry) ==
  files' = (log_file :> Append(IF exists(log_file) THEN files[log_file] ELSE <<>>,
                               json_dumps(entry))) @@ files

-----------------------------------------------------------------------------
(* audit_logger.py: inputs of the operations *)

\* an answer text is given by the parts it is made of and its length
Text(name, length) == PyStr([parts |-> <<name>>, length |-> length])

\* answer[:200] + "..." if len(answer) > 200 else answer
answer_preview(answer) ==
  IF answer[2].length > 200
  THEN PyStr([parts |-> answer[2].parts \o <<"[:200]", "...">>, length |-> 203])
  ELSE answer

QueryArgs ==
  { [user_id |-> PyStr(<<"u">>), query |-> PyStr(<<"a","b">>),
     answer |-> Text("KYC requirements include...", 27),
     sources |-> << << <<"filename", PyStr("rbi_kyc.pdf")>> >> >>,
     confidence |-> PyFloat(89), risk_score |-> 15, metadata |-> PyNone],
    [user_id |-> PyStr(<<"u">>), query |-> PyStr(<<"a","b">>),
     answer |-> Text("a long answer", 201),
     sources |-> << << <<"chunk_index", PyInt(0)>> >> >>,
     confidence |-> PyFloat(40), risk_score |-> 75, metadata |-> PyNone],
    [user_id |-> PyStr(<<"b","u">>), query |-> PyStr(<<"a">>),
     answer |-> Text("KYC requirements include...", 27),
     sources |-> <<>>,
     confidence |-> PyFloat(0), risk_score |-> 0,
     metadata |-> PyDict(<< <<"batch", PyInt(1)>> >>)] }

AlertArgs ==
  { [alert_type |-> PyStr(<<"H","I","G","H","_","R","I","S","K","_","Q","U","E","R","Y">>), severity |-> PyStr("HIGH"),
     message |-> PyStr(<<"S","u","s","p","i","c","i","o","u","s"," ","q","u","e","r","y">>), query_id |-> PyNone,
     user_id |-> PyStr(<<"u">>), metadata |-> PyNone],
    [alert_type |-> PyStr(<<"H","I","G","H","_","R","I","S","K","_","Q","U","E","R","Y">>), severity |-> PyStr("LOW"),
     message |-> PyStr(<<"S","u","s","p","i","c","i","o","u","s"," ","q","u","e","r","y">>), query_id |-> PyNone,
     user_id |-> PyNone, metadata |-> PyNone] }

AccessArgs ==
  { [user_id |-> PyStr(<<"u">>), action |-> PyStr("login"),
     resource |-> PyStr("dashboard"), status |-> PyStr("success"),
     metadata |-> PyNone] }

DocumentArgs ==
  { [user_id |-> PyStr(<<"u">>), filename |-> PyStr("rbi_kyc.pdf"), file_size |-> 1024,
     file_type |-> PyStr("pdf"), chunks_created |-> 12, status |-> PyStr("success")] }

\* lines that json.loads rejects: a blank line and an object cut short
TornLine == << <<"{">>, <<"member", "timestamp", <<"string", "2024">> >> >>
CorruptLines == {<<>>, TornLine}

UserFilters == {PyNone, PyStr(<<"u">>)}
SeverityFilters == {PyNone, PyStr("HIGH")}
ReadLimits == (0..MaxLimit) \cup {100}

ExportArgs ==
  { [start_date |-> PyNone, end_date |-> PyNone, output_file |-> PyNone],
    [start_date |-> PyStr("2024-01-01"), end_date |-> PyStr("2024-12-31"),
     output_file |-> PyStr("export.json")] }

-----------------------------------------------------------------------------
(* audit_logger.py: the operations of AuditLogger *)

Called(op, a, value) ==
  calls' = Append(calls, [op |-> op, args |-> a, now |-> clock, value |-> value])

\* lines 42-56: the ID and the entry of a query
query_log_entry(a, now) ==
  LET query_id == _generate_id(<<a.query, a.user_id>>, now)
  IN << <<"query_id", PyStr(query_id)>>,
        <<"timestamp", PyStr(isoformat(now))>>,
        <<"user_id", a.user_id>>,
        <<"query", a.query>>,
        <<"answer_preview", answer_preview(a.answer)>>,
        <<"answer_length", PyInt(a.answer[2].length)>>,
        <<"sources_used",
          PyList([i \in DOMAIN a.sources |->
                    ItemGet(a.sources[i], "filename", PyStr("Unknown"))])>>,
        <<"source_count", PyInt(Len(a.sources))>>,
        <<"confidence_score", a.confidence>>,
        <<"risk_score", PyInt(a.risk_score)>>,
        <<"metadata", IF a.metadata = PyNone THEN PyDict(<<>>) ELSE a.metadata>> >>

\* lines 26-59: what the call does to the logger's files and what it returns
log_query_call(a) ==
  LET query_id == _generate_id(<<a.query, a.user_id>>, clock)
      log_entry == query_log_entry(a, clock)
  IN /\ _write_log("query", log_entry)
     /\ written' = [written EXCEPT !["query"] = Append(@, log_entry)]
     /\ Called("log_query", a, PyStr(query_id))
     /\ ret' = [op |-> "log_query", value |-> PyStr(query_id)]
     /\ nops' = nops + 1
     /\ UNCHANGED exported

\* lines 26-59, called on its own
log_query(a) ==
  /\ log_query_call(a)
  /\ UNCHANGED <<riskVars, serviceVars, clock>>

\* lines 70-77: the entry of an access
access_log_entry(a, now) ==
  << <<"timestamp", PyStr(isoformat(now))>>,
     <<"user_id", a.user_id>>,
     <<"action", a.action>>,
     <<"resource", a.resource>>,
     <<"status", a.status>>,
     <<"metadata", IF a.metadata = PyNone THEN PyDict(<<>>) ELSE a.metadata>> >>

\* lines 61-79
log_access(a) ==
  LET log_entry == access_log_entry(a, clock)
  IN /\ _write_log("access", log_entry)
     /\ written' = [written EXCEPT !["access"] = Append(@, log_entry)]
     /\ Called("log_access", a, PyNone)
     /\ ret' = [op |-> "log_access", value |-> PyNone]
     /\ nops' = nops + 1
     /\ UNCHANGED <<riskVars, serviceVars, clock, exported>>

\* lines 96-107: the ID and the entry of an alert
alert_log_entry(a, now) ==
  LET alert_id == _generate_id(<<a.message, a.alert_type>>, now)
  IN << <<"alert_id", PyStr(alert_id)>>,
        <<"timestamp", PyStr(isoformat(now))>>,
        <<"alert_type", a.alert_type>>,
        <<"severity", a.severity>>,
        <<"message", a.message>>,
        <<"query_id", a.query_id>>,
        <<"user_id", a.user_id>>,
        <<"metadata", IF a.metadata = PyNone THEN PyDict(<<>>) ELSE a.metadata>> >>

\* lines 81-110
log_alert(a) ==
  LET alert_id == _generate_id(<<a.message, a.alert_type>>, clock)
      log_entry == alert_log_entry(a, clock)
  IN /\ _write_log("alert", log_entry)
     /\ written' = [written EXCEPT !["alert"] = Append(@, log_entry)]
     /\ Called("log_alert", a, PyStr(alert_id))
     /\ ret' = [op |-> "log_alert", value |-> PyStr(alert_id)]
     /\ nops' = nops + 1
     /\ UNCHANGED <<riskVars, serviceVars, clock, exported>>

\* lines 122-130: the entry of a document upload
document_log_entry(a, now) ==
  << <<"timestamp", PyStr(isoformat(now))>>,
     <<"user_id", a.user_id>>,
     <<"filename", a.filename>>,
     <<"file_size", PyInt(a.file_size)>>,
     <<"file_type", a.file_type>>,
     <<"chunks_created", PyInt(a.chunks_created)>>,
     <<"status", a.status>> >>

\* lines 112-132
log_document_upload(a) ==
  LET log_entry == document_log_entry(a, clock)
  IN /\ _write_log("document", log_entry)
     /\ written' = [written EXCEPT !["document"] = Append(@, log_entry)]
     /\ Called("log_document_upload", a, PyNone)
     /\ ret' = [op |-> "log_document_upload", value |-> PyNone]
     /\ nops' = nops + 1
     /\ UNCHANGED <<riskVars, serviceVars, clock, exported>>

\* lines 134-140
get_query_history(user_id, limit) ==
  /\ ret' = [op |-> "get_query_history", user_id |-> user_id, limit |-> limit,
             value |-> _read_log("query", user_id, limit)]
  /\ UNCHANGED <<riskVars, serviceVars, clock, files, written, calls, exported, nops>>

\* lines 142-153
get_alerts_value(severity, limit) ==
  LET alerts == _read_log("alert", PyNone, limit)
  IN IF severity # PyNone
     THEN SelectSeq(alerts, LAMBDA a : ItemGet(a, "severity", PyNone) = severity)
     ELSE alerts

get_alerts(severity, limit) ==
  /\ ret' = [op |-> "get_alerts", severity |-> severity, limit |-> limit,
             value |-> get_alerts_value(severity, limit)]
  /\ UNCHANGED <<riskVars, serviceVars, clock, files, written, calls, exported, nops>>

\* lines 155-173: the dict that get_statistics returns at clock reading now
get_statistics_value(now) ==
  LET recent_alerts == get_alerts_value(PyNone, 10)
      high_severity_alerts ==
        SelectSeq(recent_alerts,
                  LAMBDA a : ItemGet(a, "severity", PyNone) = PyStr("HIGH"))
  IN [total_queries |-> _count_lines("query"),
      total_access_logs |-> _count_lines("access"),
      total_alerts |-> _count_lines("alert"),
      total_documents_processed |-> _count_lines("document"),
      recent_high_severity_alerts |-> Len(high_severity_alerts),
      last_updated |-> isoformat(now)]

\* lines 155-173
get_statistics ==
     /\ ret' = [op |-> "get_statistics", value |-> get_statistics_value(clock)]
     /\ UNCHANGED <<riskVars, serviceVars, clock, files, written, calls, exported, nops>>

\* lines 175-203; the export file is another file than the four partitions
export_audit_trail(a) ==
  LET output_file == IF a.output_file = PyNone
                     THEN PyStr(<<"audit_export_", strftime(clock), ".json">>)
                     ELSE a.output_file
      export_data ==
        [export_timestamp |-> isoformat(clock),
         date_range |-> [start |-> a.start_date, end |-> a.end_date],
         queries |-> _read_log("query", PyNone, 100),
         access_logs |-> _read_log("access", PyNone, 100),
         alerts |-> _read_log("alert", PyNone, 100),
         documents |-> _read_log("document", PyNone, 100)]
  IN /\ exported' = [path |-> output_file, data |-> export_data]
     /\ ret' = [op |-> "export_audit_trail", value |-> output_file]
     /\ nops' = nops + 1
     /\ UNCHANGED <<riskVars, serviceVars, clock, files, written, calls>>

\* The environment damages a partition: a line that is no JSON object lands in it.
CorruptLineInjected(k, line) ==
  /\ exists(k)
  /\ files' = [files EXCEPT ![k] = Append(@, line)]
  /\ ret' = [op |-> "corrupt", value |-> PyNone]
  /\ nops' = nops + 1
  /\ UNCHANGED <<riskVars, serviceVars, clock, written, calls, exported>>

\* After construction (lines 16-24) of a logger on a directory whose partition
\* files exist and are empty.
InitAudit ==
  /\ input = [scorer |-> "none", data |-> <<>>]
  /\ txnRes = <<>>
  /\ qRes = <<>>
  /\ clock = 0
  /\ InitAuditIdle
  /\ InitServicesIdle

\* The whole logger in use: every operation, on every partition.
LogQuery == nops < MaxOps /\ \E a \in QueryArgs : log_query(a)
LogAccess == nops < MaxOps /\ \E a \in AccessArgs : log_access(a)
LogAlert == nops < MaxOps /\ \E a \in AlertArgs : log_alert(a)
LogDocumentUpload == nops < MaxOps /\ \E a \in DocumentArgs : log_document_upload(a)
GetQueryHistory == get_query_history(PyNone, 100)
GetAlerts == \E s \in SeverityFilters : get_alerts(s, 50)
GetStatistics == get_statistics
ExportAuditTrail == nops < MaxOps /\ \E a \in ExportArgs : export_audit_trail(a)
InjectCorrupt == nops < MaxOps /\ \E k \in Kinds : CorruptLineInjected(k, TornLine)

NextAudit ==
  \/ Tick
  \/ LogQuery
  \/ LogAccess
  \/ LogAlert
  \/ LogDocumentUpload
  \/ GetQueryHistory
  \/ GetAlerts
  \/ GetStatistics
  \/ ExportAuditTrail
  \/ InjectCorrupt

SpecAudit == InitAudit /\ [][NextAudit]_vars

\* The query partition in use: appends, damaged lines and read-backs with every
\* filter and limit.
QueryLogAppend ==
  nops < MaxLines /\ \E a \in {q \in QueryArgs : q.risk_score < 50} : log_query(a)
QueryLogCorrupt ==
  nops < MaxLines /\ \E line \in CorruptLines : CorruptLineInjected("query", line)
QueryLogRead ==
  \E u \in UserFilters, limit \in ReadLimits : get_query_history(u, limit)

NextQueryLog == Tick \/ QueryLogAppend \/ QueryLogCorrupt \/ QueryLogRead

SpecQueryLog == InitAudit /\ [][NextQueryLog]_vars

-----------------------------------------------------------------------------
(* Properties of the audit logger *)

IsPrefix(a, b) == Len(a) <= Len(b) /\ SubSeq(b, 1, Len(a)) = a

\* the last n elements of a sequence
LastN(seq, n) == SubSeq(seq, Len(seq) - n + 1, Len(seq))

\* the entries among seq that a read-back with this user filter keeps
PassFilter(seq, user_id) ==
  SelectSeq(seq, LAMBDA e : user_id = PyNone \/ ItemGet(e, "user_id", PyNone) = user_id)

C7_LastLimitRecords ==
  ret.op = "get_query_history" =>
    LET passing == PassFilter(written["query"], ret.user_id)
    IN /\ Len(ret.value) <= ret.limit
       /\ ret.value = LastN(passing, Min(ret.limit, Len(passing)))

ReadOps == {"get_query_history", "get_alerts", "get_statistics", "export_audit_trail"}

PartitionOf(op) ==
  CASE op = "log_query" -> "query"
    [] op = "log_access" -> "access"
    [] op = "log_alert" -> "alert"
    [] op = "log_document_upload" -> "document"

C9_DistinctIds ==
  \A i, j \in DOMAIN calls :
    (/\ i < j
     /\ calls[i].op = calls[j].op
     /\ calls[i].op \in {"log_query", "log_alert"}
     /\ (calls[i].args # calls[j].args \/ calls[i].now # calls[j].now))
    => calls[i].value # calls[j].value

\* the keys under which a record of a partition would carry its own ID
IdKeys(k) ==
  CASE k = "query" -> {"id", "query_id"}
    [] k = "access" -> {"id", "access_id"}
    [] k = "alert" -> {"id", "alert_id"}
    [] k = "document" -> {"id", "document_id"}

RecordIds(k, entry) ==
  {entry[i][2] : i \in {n \in DOMAIN entry : entry[n][1] \in IdKeys(k)}}

\* C10: every record appended by one of the four log_* operations contains an
\* ID and a creation timestamp, the operation returns that ID, and no two
\* records of one partition have the same ID.
C10_CommonEnvelope ==
  /\ \A k \in Kinds : \A i \in DOMAIN written[k] :
       /\ RecordIds(k, written[k][i]) # {}
       /\ \E n \in DOMAIN written[k][i] : written[k][i][n][1] = "timestamp"
       /\ \A j \in DOMAIN written[k] :
            i # j => RecordIds(k, written[k][i]) \cap RecordIds(k, written[k][j]) = {}
  /\ \A i \in DOMAIN calls :
       LET k == PartitionOf(calls[i].op)
           n == Cardinality({j \in 1..i : calls[j].op = calls[i].op})
       IN calls[i].value \in RecordIds(k, written[k][n])


-----------------------------------------------------------------------------
(* audit_logger.py: the export of a long audit trail *)

MaxExportOps == 3   \* lines appended and exports written on top of an existing trail

\* the number of uploads an earlier run of the service left in the document log
ExistingUploads == {0, 99}

\* the n-th upload of a document: its number of chunks tells the uploads apart
NthUpload(n) ==
  [user_id |-> PyStr(<<"u">>), filename |-> PyStr("rbi_kyc.pdf"), file_size |-> 1024,
   file_type |-> PyStr("pdf"), chunks_created |-> n, status |-> PyStr("success")]

\* lines 16-24: a logger constructed on a directory (makedirs with exist_ok)
\* that holds the document log of an earlier run
InitExport ==
  /\ input = [scorer |-> "none", data |-> <<>>]
  /\ txnRes = <<>>
  /\ qRes = <<>>
  /\ clock = 0
  /\ \E n \in ExistingUploads :
       /\ written = [k \in Kinds |->
                       IF k = "document"
                       THEN [i \in 1..n |-> document_log_entry(NthUpload(i), 0)]
                       ELSE <<>>]
       /\ files = [k \in Kinds |->
                     IF k = "document"
                     THEN [i \in 1..n |-> json_dumps(document_log_entry(NthUpload(i), 0))]
                     ELSE <<>>]
  /\ calls = <<>>
  /\ exported = [path |-> <<"None">>, data |-> <<>>]
  /\ ret = [op |-> "none"]
  /\ nops = 0
  /\ InitServicesIdle

ExportLogUpload ==
  /\ nops < MaxExportOps
  /\ log_document_upload(NthUpload(Len(files["document"]) + 1))
ExportLogAccess == nops < MaxExportOps /\ \E a \in AccessArgs : log_access(a)
ExportWrite == nops < MaxExportOps /\ \E a \in ExportArgs : export_audit_trail(a)

NextExport == Tick \/ ExportLogUpload \/ ExportLogAccess \/ ExportWrite

SpecExport == InitExport /\ [][NextExport]_vars

\* C11: whatever the number of records and the date arguments, each of the
\* four arrays of the exported document holds every well-formed record of its
\* partition, in file order.
C11_ExportFullContents ==
  ret.op = "export_audit_trail" =>
    /\ exported.data.queries = written["query"]
    /\ exported.data.access_logs = written["access"]
    /\ exported.data.alerts = written["alert"]
    /\ exported.data.documents = written["document"]


-----------------------------------------------------------------------------
(* audit_logger.py / batch_processor.py: an append whose file write fails *)

MaxRows == 2   \* rows of the CSV file handed to process_csv_queries

\* an exception that leaves a call instead of a value
Raised(e) == <<"raise", e>>

\* lines 210-213: open(log_file, 'a') or f.write raises OSError (no permission,
\* disk full); nothing of the line reached the file, or a part of it did
_write_log_raising(log_file) ==
  \/ files' = files
  \/ files' = [files EXCEPT ![log_file] = Append(@, TornLine)]

\* lines 26-59 when _write_log raises: no handler in log_query, the exception
\* leaves the call and no ID is returned
log_query_raising(a) ==
  /\ _write_log_raising("query")
  /\ Called("log_query", a, Raised("OSError"))
  /\ ret' = [op |-> "log_query", value |-> Raised("OSError")]
  /\ nops' = nops + 1
  /\ UNCHANGED <<written, exported>>

\* the rows csv.DictReader yields: a question_id and a query, possibly empty
CsvFiles ==
  UNION {[1..n -> {"", "q"}] : n \in 1..MaxRows}

\* lines 76-83: the arguments of the log_query call for a row
BatchLogArgs(question_id, query) ==
  [user_id |-> PyStr(<<"batch_processor">>), query |-> PyStr(<<query>>),
   answer |-> Text("answer", 27), sources |-> <<>>,
   confidence |-> PyFloat(80), risk_score |-> 0,
   metadata |-> PyDict(<< <<"batch_id", PyInt(question_id)>>,
                          <<"category", PyStr("")>> >>)]

\* BatchProcessor.__init__ (lines 16-19) with or without an audit logger, and
\* the local variables of process_csv_queries at its start (lines 39-40)
InitBatch ==
  /\ input = [scorer |-> "none", data |-> <<>>]
  /\ txnRes = <<>>
  /\ qRes = <<>>
  /\ clock = 0
  /\ InitAuditIdle
  /\ batch \in [audit_logger : BOOLEAN, csv : CsvFiles, row : {0},
                 results : {<<>>}, errors : {<<>>},
                 returned : {[done |-> FALSE]}]
  /\ tail = <<>>
  /\ threads = <<>>
  /\ monitor = <<>>
  /\ recorded = <<>>
  /\ metrics = <<>>
  /\ pct = <<>>
  /\ collection = <<>>
  /\ dash = <<>>

BatchFrame == UNCHANGED <<riskVars, clock, threadVars, monitorVars, dashVars>>

\* lines 46-56: a row without query
RowEmptyQuery ==
  /\ ~batch.returned.done
  /\ batch.row < Len(batch.csv)
  /\ LET question_id == batch.row + 1 IN
     /\ batch.csv[question_id] = ""
     /\ batch' = [batch EXCEPT !.row = question_id,
                    !.errors = Append(@, [question_id |-> question_id,
                                          error |-> "Empty query"])]
  /\ UNCHANGED auditVars
  /\ BatchFrame

\* lines 58-60, 84-96: generate_answer raises or reports no success
RowNotAnswered ==
  /\ ~batch.returned.done
  /\ batch.row < Len(batch.csv)
  /\ LET question_id == batch.row + 1 IN
     /\ batch.csv[question_id] # ""
     /\ \E error \in {"Unknown error", "str(e)"} :
          batch' = [batch EXCEPT !.row = question_id,
                      !.errors = Append(@, [question_id |-> question_id,
                                            error |-> error])]
  /\ UNCHANGED auditVars
  /\ BatchFrame

\* lines 58-83, 91-96: generate_answer succeeds; the result is appended to
\* results, then the query is logged if there is a logger; an exception of
\* log_query is caught at line 91 and appended to errors
RowAnswered ==
  /\ ~batch.returned.done
  /\ batch.row < Len(batch.csv)
  /\ LET question_id == batch.row + 1
         a == BatchLogArgs(question_id, batch.csv[question_id])
         appended == [batch EXCEPT !.row = question_id,
                        !.results = Append(@, [question_id |-> question_id,
                                               answer |-> "answer"])]
     IN
     /\ batch.csv[question_id] # ""
     /\ IF batch.audit_logger
        THEN \/ /\ log_query_call(a)
                /\ batch' = appended
             \/ /\ log_query_raising(a)
                /\ batch' = [appended EXCEPT
                               !.errors = Append(@, [question_id |-> question_id,
                                                     error |-> "str(e)"])]
        ELSE /\ batch' = appended
             /\ UNCHANGED auditVars
  /\ BatchFrame

\* lines 98-124: the result and error files are written and the summary returned
BatchReturn ==
  /\ ~batch.returned.done
  /\ batch.row = Len(batch.csv)
  /\ batch' = [batch EXCEPT !.returned =
                 [done |-> TRUE, success |-> TRUE,
                  total_queries |-> Len(batch.results) + Len(batch.errors),
                  successful |-> Len(batch.results),
                  failed |-> Len(batch.errors)]]
  /\ UNCHANGED auditVars
  /\ BatchFrame

\* lines 126-130: opening or writing a CSV file raises
BatchReturnFailure ==
  /\ ~batch.returned.done
  /\ batch' = [batch EXCEPT !.returned =
                 [done |-> TRUE, success |-> FALSE, error |-> "str(e)"]]
  /\ UNCHANGED auditVars
  /\ BatchFrame

NextBatch ==
  \/ Tick
  \/ RowEmptyQuery
  \/ RowNotAnswered
  \/ RowAnswered
  \/ BatchReturn
  \/ BatchReturnFailure

SpecBatch == InitBatch /\ [][NextBatch]_vars

\* the rows whose log_query call ended with an exception
RowsNotLogged ==
  {ItemGet(calls[i].args.metadata[2], "batch_id", PyNone)[2] :
     i \in {n \in DOMAIN calls : calls[n].value = Raised("OSError")}}

\* C12: when the file write of an append fails, the call ends with an error
\* that reaches its caller and returns no ID, and the caller does not report
\* the audited action as recorded.
C12_WriteFailurePropagates ==
  /\ (calls # <<>> /\ calls[Len(calls)].value = Raised("OSError")) =>
       (ret.op = "log_query" /\ ret.value = Raised("OSError"))
  /\ \A question_id \in RowsNotLogged :
       /\ \E i \in DOMAIN batch.errors : batch.errors[i].question_id = question_id
       /\ ~\E i \in DOMAIN batch.results : batch.results[i].question_id = question_id
       /\ (batch.returned.done /\ batch.returned.success) =>
            batch.returned.successful = Len(written["query"])

\* the rows that the query partition holds a record of
RowsLogged ==
  {ItemGet(ItemGet(written["query"][i], "metadata", PyNone)[2], "batch_id", PyNone)[2] :
     i \in DOMAIN written["query"]}

\* C30: process_csv_queries accounts for every row once, whatever the answer
\* engine and the audit logger do: each row read is in exactly one of results
\* and errors, so that successful + failed = total_queries = the number of
\* rows read, and with an audit logger each row in results has been logged.
C30_EveryRowOnce ==
  /\ \A question_id \in 1..batch.row :
       Cardinality({i \in DOMAIN batch.results :
                      batch.results[i].question_id = question_id})
         + Cardinality({i \in DOMAIN batch.errors :
                          batch.errors[i].question_id = question_id}) = 1
  /\ batch.audit_logger =>
       \A i \in DOMAIN batch.results : batch.results[i].question_id \in RowsLogged
  /\ (batch.returned.done /\ batch.returned.success) =>
       /\ batch.returned.successful + batch.returned.failed
            = batch.returned.total_queries
       /\ batch.returned.total_queries = Len(batch.csv)



-----------------------------------------------------------------------------
(* audit_logger.py: threads appending to one partition at the same time *)

MaxThreads == 2   \* threads running an operation at the same time

Threads == 1..MaxThreads

\* the line break that ends a line of a log file
LineBreak == <<"\\n">>

\* the log_access call of a thread: the threads act for different users
ThreadAccessArgs(t) ==
  [user_id |-> PyStr(<<"u", t>>), action |-> PyStr("login"),
   resource |-> PyStr("dashboard"), status |-> PyStr("success"),
   metadata |-> PyNone]

\* line 213 and the exit of the with block at line 212: the text handed to
\* f.write is buffered and goes to the file, opened for appending, in one
\* write call of the operating system or, after a short write, in two
WriteCalls(text) ==
  {<<text>>} \cup {<<SubSeq(text, 1, m), SubSeq(text, m + 1, Len(text))>> :
                     m \in 1..(Len(text) - 1)}

\* After construction (lines 16-24); no lock is created and no thread has
\* called the logger yet.
InitAppendRace ==
  /\ input = [scorer |-> "none", data |-> <<>>]
  /\ txnRes = <<>>
  /\ qRes = <<>>
  /\ clock = 0
  /\ InitAuditIdle
  /\ tail = [k \in Kinds |-> <<>>]
  /\ threads = [t \in Threads |-> [pc |-> "idle"]]
  /\ batch = <<>>
  /\ monitor = <<>>
  /\ recorded = <<>>
  /\ metrics = <<>>
  /\ pct = <<>>
  /\ collection = <<>>
  /\ dash = <<>>

AppendRaceFrame == UNCHANGED <<riskVars, clock, batchVars, monitorVars, dashVars>>

\* lines 61-79 and 210-213 up to f.write: thread t calls log_access, the entry
\* is built, the file is opened and the line is put into the buffer
ThreadCallsLogAccess(t) ==
  /\ threads[t].pc = "idle"
  /\ LET log_entry == access_log_entry(ThreadAccessArgs(t), clock)
         text == json_dumps(log_entry) \o <<LineBreak>>
     IN \E pending \in WriteCalls(text) :
          threads' = [threads EXCEPT ![t] =
                        [pc |-> "writing", entry |-> log_entry, pending |-> pending]]
  /\ UNCHANGED <<auditVars, tail>>
  /\ AppendRaceFrame

\* one write call of thread t appends its bytes at the end of the file; a line
\* of the file is complete when its line break is written
ThreadWrites(t) ==
  /\ threads[t].pc = "writing"
  /\ LET bytes == tail["access"] \o Head(threads[t].pending)
         rest == Tail(threads[t].pending)
     IN /\ IF bytes[Len(bytes)] = LineBreak
           THEN /\ files' = [files EXCEPT !["access"] =
                               Append(@, SubSeq(bytes, 1, Len(bytes) - 1))]
                /\ tail' = [tail EXCEPT !["access"] = <<>>]
           ELSE /\ tail' = [tail EXCEPT !["access"] = bytes]
                /\ UNCHANGED files
        /\ IF rest = <<>>
           THEN /\ threads' = [threads EXCEPT ![t] =
                                 [pc |-> "done", entry |-> threads[t].entry]]
                /\ written' = [written EXCEPT !["access"] =
                                 Append(@, threads[t].entry)]
                /\ Called("log_access", ThreadAccessArgs(t), PyNone)
                /\ ret' = [op |-> "log_access", value |-> PyNone]
                /\ nops' = nops + 1
           ELSE /\ threads' = [threads EXCEPT ![t].pending = rest]
                /\ UNCHANGED <<written, calls, ret, nops>>
  /\ UNCHANGED exported
  /\ AppendRaceFrame

NextAppendRace ==
  \/ Tick
  \/ \E t \in Threads : ThreadCallsLogAccess(t)
  \/ \E t \in Threads : ThreadWrites(t)

SpecAppendRace == InitAppendRace /\ [][NextAppendRace]_vars

\* C13: under every interleaving of threads appending to one partition, every
\* line of the file is one whole record, no line holds bytes of two records,
\* and the number of lines equals the number of completed appends once no
\* append is under way.
C13_AppendsSerialized ==
  /\ \A i \in DOMAIN files["access"] :
       \E t \in Threads : /\ threads[t].pc # "idle"
                          /\ files["access"][i] = json_dumps(threads[t].entry)
  /\ (\A t \in Threads : threads[t].pc # "writing") =>
       /\ tail["access"] = <<>>
       /\ Len(files["access"]) = Len(written["access"])
       /\ \A i \in DOMAIN written["access"] :
            Cardinality({j \in DOMAIN files["access"] :
                           files["access"][j] = json_dumps(written["access"][i])}) = 1



-----------------------------------------------------------------------------
(* performance_monitor.py: PerformanceMonitor                               *)
(*                                                                          *)
(* A duration is a number of ten-thousandths of a second, so that the       *)
(* rounding of get_metrics to three decimals (to a multiple of 10) shows.   *)
(* A rate is a number of hundredths, the two decimals that round(x, 2)      *)
(* keeps.                                                                   *)

MaxHistory == 2   \* largest history_size a monitor is constructed with
MaxSamples == 3   \* durations recorded by one monitor
MaxCache == 4     \* cache hits and misses recorded by one monitor

Classes == {"query", "embedding", "search", "llm"}

DequeAppendKeepingOldest(d, x, maxlen) ==
  IF Len(d) >= maxlen THEN d ELSE Append(d, x)

\* deque(maxlen=maxlen).append(x): the oldest element leaves a full deque
DequeAppend(d, x, maxlen) ==
  IF maxlen = 0 THEN <<>>
  ELSE IF Len(d) >= maxlen THEN Tail(d) \o <<x>>
  ELSE Append(d, x)

\* round(num / den, digits) where unit is the weight of the last digit kept:
\* the multiple of unit nearest to num / den. Where num / den lies halfway
\* between two multiples, the binary value of the float decides, so both are
\* possible results.
Roundings(num, den, unit) ==
  LET below == ((num \div den) \div unit) * unit
  IN {r \in {below, below + unit} :
        2 * (IF num >= r * den THEN num - r * den ELSE r * den - num) <= unit * den}

\* sorted(data)
sorted(data) ==
  LET n == Len(data)
      rank == [j \in 1..n |->
                 Cardinality({k \in 1..n : \/ data[k] < data[j]
                                           \/ data[k] = data[j] /\ k < j}) + 1]
  IN [i \in 1..n |-> data[CHOOSE j \in 1..n : rank[j] = i]]

RECURSIVE sum(_)
sum(data) == IF data = <<>> THEN 0 ELSE Head(data) + sum(Tail(data))

\* statistics.mean and statistics.median as fractions num / den
mean(data) == [num |-> sum(data), den |-> Len(data)]

median(data) ==
  LET n == Len(data)
      ordered == sorted(data)
  IN IF n % 2 = 1
     THEN [num |-> ordered[(n \div 2) + 1], den |-> 1]
     ELSE [num |-> ordered[n \div 2] + ordered[(n \div 2) + 1], den |-> 2]

min(data) == CHOOSE x \in Range(data) : \A y \in Range(data) : x <= y
max(data) == CHOOSE x \in Range(data) : \A y \in Range(data) : x >= y

_percentile_RankMinusOne(data, percentile) ==
  IF data = <<>> THEN 0
  ELSE LET sorted_data == sorted(data)
           index == ((percentile * Len(sorted_data) + 99) \div 100) - 1
       IN sorted_data[Min(index, Len(sorted_data) - 1) + 1]

\* lines 179-185; int((percentile / 100) * n) is the floor of percentile * n / 100
_percentile(data, percentile) ==
  IF data = <<>> THEN 0
  ELSE LET sorted_data == sorted(data)
           index == (percentile * Len(sorted_data)) \div 100
       IN sorted_data[Min(index, Len(sorted_data) - 1) + 1]

\* lines 161-177
_format_uptime(seconds) ==
  LET days == seconds \div 86400
      hours == (seconds % 86400) \div 3600
      minutes == (seconds % 3600) \div 60
      secs == seconds % 60
  IN (IF days > 0 THEN << <<days, "d">> >> ELSE <<>>)
       \o (IF hours > 0 THEN << <<hours, "h">> >> ELSE <<>>)
       \o (IF minutes > 0 THEN << <<minutes, "m">> >> ELSE <<>>)
       \o << <<secs, "s">> >>

\* lines 75-82: the statistics of the query times, each rounded to 3 decimals
QueryTimeBlocks(times) ==
  {[avg |-> a, median |-> m, min |-> lo, max |-> hi, p95 |-> p, p99 |-> q] :
     a \in Roundings(mean(times).num, mean(times).den, 10),
     m \in Roundings(median(times).num, median(times).den, 10),
     lo \in Roundings(min(times), 1, 10),
     hi \in Roundings(max(times), 1, 10),
     p \in Roundings(_percentile(times, 95), 1, 10),
     q \in Roundings(_percentile(times, 99), 1, 10)}

AvgMedianBlocksWithExtremes(times) ==
  {[avg |-> a, median |-> m, min |-> lo, max |-> hi] :
     a \in Roundings(mean(times).num, mean(times).den, 10),
     m \in Roundings(median(times).num, median(times).den, 10),
     lo \in Roundings(min(times), 1, 10),
     hi \in Roundings(max(times), 1, 10)}

\* lines 86-89, 93-96, 100-103: the statistics of the other three classes
AvgMedianBlocks(times) ==
  {[avg |-> a, median |-> m] :
     a \in Roundings(mean(times).num, mean(times).den, 10),
     m \in Roundings(median(times).num, median(times).den, 10)}

\* the entry that a non-empty window adds to the metrics dict
BlockEntries(key, times, blocks) ==
  IF times = <<>> THEN {<<>>} ELSE {key :> b : b \in blocks}

cache_hit_rate_Truncated(hits, misses) ==
  IF hits + misses > 0 THEN {(hits * 100 * 100) \div (hits + misses)} ELSE {0}

\* lines 68-69: round((hits / (hits + misses)) * 100, 2), in hundredths
cache_hit_rate(hits, misses) ==
  IF hits + misses > 0 THEN Roundings(hits * 100 * 100, hits + misses, 1) ELSE {0}

\* lines 59-105: the dicts get_metrics can return at clock reading now
get_metrics_results(m, now) ==
  LET uptime == now - m.start_time
      head ==
        {[uptime_seconds |-> uptime,
          uptime_formatted |-> _format_uptime(uptime),
          total_queries |-> m.total_queries,
          queries_per_minute |-> qpm,
          cache_hit_rate |-> rate,
          timestamp |-> isoformat(now)] :
           qpm \in IF uptime > 0
                   THEN Roundings(m.total_queries * 60 * 100, uptime, 1)
                   ELSE {0},
           rate \in cache_hit_rate(m.cache_hits, m.cache_misses)}
  IN {h @@ q @@ e @@ s2 @@ l :
        h \in head,
        q \in BlockEntries("query_time", m.query_times, QueryTimeBlocks(m.query_times)),
        e \in BlockEntries("embedding_time", m.embedding_times,
                           AvgMedianBlocks(m.embedding_times)),
        s2 \in BlockEntries("search_time", m.search_times,
                            AvgMedianBlocks(m.search_times)),
        l \in BlockEntries("llm_time", m.llm_times, AvgMedianBlocks(m.llm_times))}

\* the durations a caller measures
Durations == {4, 1000}

HistorySizes == 0..MaxHistory

\* lines 16-32
InitMonitor ==
  /\ input = [scorer |-> "none", data |-> <<>>]
  /\ txnRes = <<>>
  /\ qRes = <<>>
  /\ clock = 0
  /\ InitAuditIdle
  /\ \E history_size \in HistorySizes :
       monitor = [history_size |-> history_size,
                  query_times |-> <<>>, embedding_times |-> <<>>,
                  search_times |-> <<>>, llm_times |-> <<>>,
                  total_queries |-> 0, cache_hits |-> 0, cache_misses |-> 0,
                  start_time |-> 0]
  /\ recorded = [query |-> <<>>, embedding |-> <<>>, search |-> <<>>, llm |-> <<>>,
                 hits |-> 0, misses |-> 0]
  /\ metrics = [op |-> "none"]
  /\ threads = <<>>
  /\ tail = <<>>
  /\ batch = <<>>
  /\ pct = <<>>
  /\ collection = <<>>
  /\ dash = <<>>

MonitorFrame ==
  UNCHANGED <<riskVars, auditVars, clock, batchVars, threadVars, pct, dashVars>>

\* lines 34-37
record_query_time(duration) ==
  /\ monitor' = [monitor EXCEPT
                   !.query_times = DequeAppend(@, duration, monitor.history_size),
                   !.total_queries = @ + 1]
  /\ recorded' = [recorded EXCEPT !.query = Append(@, duration)]
  /\ UNCHANGED metrics
  /\ MonitorFrame

\* lines 39-41
record_embedding_time(duration) ==
  /\ monitor' = [monitor EXCEPT
                   !.embedding_times = DequeAppend(@, duration, monitor.history_size)]
  /\ recorded' = [recorded EXCEPT !.embedding = Append(@, duration)]
  /\ UNCHANGED metrics
  /\ MonitorFrame

\* lines 43-45
record_search_time(duration) ==
  /\ monitor' = [monitor EXCEPT
                   !.search_times = DequeAppend(@, duration, monitor.history_size)]
  /\ recorded' = [recorded EXCEPT !.search = Append(@, duration)]
  /\ UNCHANGED metrics
  /\ MonitorFrame

\* lines 47-49
record_llm_time(duration) ==
  /\ monitor' = [monitor EXCEPT
                   !.llm_times = DequeAppend(@, duration, monitor.history_size)]
  /\ recorded' = [recorded EXCEPT !.llm = Append(@, duration)]
  /\ UNCHANGED metrics
  /\ MonitorFrame

\* lines 51-53, with the hit counted as a query as well
record_cache_hit_CountingQuery ==
  /\ monitor' = [monitor EXCEPT !.cache_hits = @ + 1, !.total_queries = @ + 1]
  /\ recorded' = [recorded EXCEPT !.hits = @ + 1]
  /\ UNCHANGED metrics
  /\ MonitorFrame

\* lines 51-53
record_cache_hit ==
  /\ monitor' = [monitor EXCEPT !.cache_hits = @ + 1]
  /\ recorded' = [recorded EXCEPT !.hits = @ + 1]
  /\ UNCHANGED metrics
  /\ MonitorFrame

\* lines 55-57
record_cache_miss ==
  /\ monitor' = [monitor EXCEPT !.cache_misses = @ + 1]
  /\ recorded' = [recorded EXCEPT !.misses = @ + 1]
  /\ UNCHANGED metrics
  /\ MonitorFrame

\* lines 59-105
get_metrics ==
  /\ \E value \in get_metrics_results(monitor, clock) :
       metrics' = [op |-> "get_metrics", value |-> value,
                   monitor |-> monitor, now |-> clock]
  /\ UNCHANGED <<monitor, recorded>>
  /\ MonitorFrame

SamplesRecorded ==
  Len(recorded.query) + Len(recorded.embedding) + Len(recorded.search)
    + Len(recorded.llm)

\* The windows in use: durations of the four classes are recorded and the
\* metrics are read.
RecordQueryTime ==
  SamplesRecorded < MaxSamples /\ \E d \in Durations : record_query_time(d)
RecordEmbeddingTime ==
  SamplesRecorded < MaxSamples /\ \E d \in Durations : record_embedding_time(d)
RecordSearchTime ==
  SamplesRecorded < MaxSamples /\ \E d \in Durations : record_search_time(d)
RecordLlmTime ==
  SamplesRecorded < MaxSamples /\ \E d \in Durations : record_llm_time(d)
GetMetrics == get_metrics

NextMonitor ==
  \/ Tick
  \/ RecordQueryTime
  \/ RecordEmbeddingTime
  \/ RecordSearchTime
  \/ RecordLlmTime
  \/ GetMetrics

SpecMonitor == InitMonitor /\ [][NextMonitor]_vars

\* The cache counters in use.
RecordCacheHit == recorded.hits + recorded.misses < MaxCache /\ record_cache_hit
RecordCacheMiss == recorded.hits + recorded.misses < MaxCache /\ record_cache_miss
GetCacheMetrics == get_metrics

NextCache == Tick \/ RecordCacheHit \/ RecordCacheMiss \/ GetCacheMetrics

SpecCache == InitMonitor /\ [][NextCache]_vars

\* The whole monitor in use by one caller: every operation, in any order.
MaxMonitorCalls == 4   \* recording calls made by the one caller

MonitorCalls == SamplesRecorded + recorded.hits + recorded.misses

CallRecordQueryTime ==
  MonitorCalls < MaxMonitorCalls /\ \E d \in {1000} : record_query_time(d)
CallRecordEmbeddingTime ==
  MonitorCalls < MaxMonitorCalls /\ \E d \in {4} : record_embedding_time(d)
CallRecordSearchTime ==
  MonitorCalls < MaxMonitorCalls /\ \E d \in {4} : record_search_time(d)
CallRecordLlmTime ==
  MonitorCalls < MaxMonitorCalls /\ \E d \in {1000} : record_llm_time(d)
CallRecordCacheHit == MonitorCalls < MaxMonitorCalls /\ record_cache_hit
CallRecordCacheMiss == MonitorCalls < MaxMonitorCalls /\ record_cache_miss
CallGetMetrics == get_metrics

NextWholeMonitor ==
  \/ CallRecordQueryTime
  \/ CallRecordEmbeddingTime
  \/ CallRecordSearchTime
  \/ CallRecordLlmTime
  \/ CallRecordCacheHit
  \/ CallRecordCacheMiss
  \/ CallGetMetrics

SpecWholeMonitor == InitMonitor /\ [][NextWholeMonitor]_vars

\* C28: after any sequence of operations of one caller, total_queries is the
\* number of record_query_time calls made and the query window holds
\* min(total_queries, history_size) durations; no step other than
\* record_query_time changes total_queries, and that step adds 1.
C28_OnlyQueryTimeCounts ==
  /\ [](/\ monitor.total_queries = Len(recorded.query)
        /\ Len(monitor.query_times)
             = Min(monitor.total_queries, monitor.history_size))
  /\ [][ /\ recorded'.query = recorded.query =>
              monitor'.total_queries = monitor.total_queries
         /\ recorded'.query # recorded.query =>
              /\ Len(recorded'.query) = Len(recorded.query) + 1
              /\ monitor'.total_queries = monitor.total_queries + 1 ]_vars

\* two query times recorded into a window of one, among an embedding time, a
\* cache hit and a reading of the metrics
C28_Witness ==
  /\ monitor.history_size = 1
  /\ monitor.total_queries = 2
  /\ Len(monitor.query_times) = 1
  /\ Len(recorded.embedding) = 1
  /\ recorded.hits = 1
  /\ metrics.op = "get_metrics"
  /\ metrics.monitor = monitor



-----------------------------------------------------------------------------
(* performance_monitor.py: threads recording into one monitor at the same   *)
(* time. `self.counter += 1` reads the attribute, adds, and stores the      *)
(* attribute; no lock is held, so another thread can run between the read   *)
(* and the store.                                                           *)

\* lines 16-32: the monitor is constructed; no thread has called it yet
InitCounters ==
  /\ input = [scorer |-> "none", data |-> <<>>]
  /\ txnRes = <<>>
  /\ qRes = <<>>
  /\ clock = 0
  /\ InitAuditIdle
  /\ monitor = [history_size |-> 1000,
                query_times |-> <<>>, embedding_times |-> <<>>,
                search_times |-> <<>>, llm_times |-> <<>>,
                total_queries |-> 0, cache_hits |-> 0, cache_misses |-> 0,
                start_time |-> 0]
  /\ recorded = [query |-> <<>>, embedding |-> <<>>, search |-> <<>>, llm |-> <<>>,
                 hits |-> 0, misses |-> 0]
  /\ metrics = [op |-> "none"]
  /\ threads = [t \in Threads |-> [pc |-> "idle"]]
  /\ tail = <<>>
  /\ batch = <<>>
  /\ pct = <<>>
  /\ collection = <<>>
  /\ dash = <<>>

CountersFrame ==
  UNCHANGED <<riskVars, auditVars, clock, batchVars, tail, metrics, pct, dashVars>>

\* the counter that an operation increments
CounterOf(op) ==
  CASE op = "record_query_time" -> "total_queries"
    [] op = "record_cache_hit" -> "cache_hits"
    [] op = "record_cache_miss" -> "cache_misses"

CallsUnderWay == Cardinality({t \in Threads : threads[t].pc # "idle"})

CallsCompleted == Len(recorded.query) + recorded.hits + recorded.misses

\* line 36: thread t enters record_query_time and appends to the window
ThreadAppendsQueryTime(t) ==
  /\ threads[t].pc = "idle"
  /\ CallsUnderWay + CallsCompleted < MaxSamples
  /\ \E duration \in Durations :
       /\ monitor' = [monitor EXCEPT
                        !.query_times = DequeAppend(@, duration, monitor.history_size)]
       /\ threads' = [threads EXCEPT ![t] =
                        [pc |-> "load", op |-> "record_query_time",
                         duration |-> duration]]
  /\ UNCHANGED recorded
  /\ CountersFrame

\* thread t enters record_cache_hit or record_cache_miss
ThreadCallsCacheOp(t) ==
  /\ threads[t].pc = "idle"
  /\ CallsUnderWay + CallsCompleted < MaxSamples
  /\ \E op \in {"record_cache_hit", "record_cache_miss"} :
       threads' = [threads EXCEPT ![t] = [pc |-> "load", op |-> op]]
  /\ UNCHANGED <<monitor, recorded>>
  /\ CountersFrame

\* lines 37, 53, 57: thread t reads the counter
ThreadLoadsCounter(t) ==
  /\ threads[t].pc = "load"
  /\ threads' = [threads EXCEPT ![t] =
                   [@ EXCEPT !.pc = "store"]
                     @@ [loaded |-> monitor[CounterOf(threads[t].op)]]]
  /\ UNCHANGED <<monitor, recorded>>
  /\ CountersFrame

\* lines 37, 53, 57: thread t stores the value it read plus one and returns
ThreadStoresCounter(t) ==
  /\ threads[t].pc = "store"
  /\ monitor' = [monitor EXCEPT ![CounterOf(threads[t].op)] = threads[t].loaded + 1]
  /\ recorded' =
       CASE threads[t].op = "record_query_time" ->
              [recorded EXCEPT !.query = Append(@, threads[t].duration)]
         [] threads[t].op = "record_cache_hit" -> [recorded EXCEPT !.hits = @ + 1]
         [] threads[t].op = "record_cache_miss" -> [recorded EXCEPT !.misses = @ + 1]
  /\ threads' = [threads EXCEPT ![t] = [pc |-> "idle"]]
  /\ CountersFrame

NextCounters ==
  \/ \E t \in Threads : ThreadAppendsQueryTime(t)
  \/ \E t \in Threads : ThreadCallsCacheOp(t)
  \/ \E t \in Threads : ThreadLoadsCounter(t)
  \/ \E t \in Threads : ThreadStoresCounter(t)

SpecCounters == InitCounters /\ [][NextCounters]_vars

\* C14: when threads have together completed n calls of record_query_time
\* (record_cache_hit, record_cache_miss) and none is under way, total_queries
\* (cache_hits, cache_misses) has grown by exactly n.
C14_NoLostUpdate ==
  (\A t \in Threads : threads[t].pc = "idle") =>
    /\ monitor.total_queries = Len(recorded.query)
    /\ monitor.cache_hits = recorded.hits
    /\ monitor.cache_misses = recorded.misses



-----------------------------------------------------------------------------
(* performance_monitor.py: the percentiles of a window of query times *)

MaxData == 3   \* length of the short lists handed to _percentile

\* the window [1, 2, ..., 100] seconds, in recording order and reversed
HundredSeconds == [i \in 1..100 |-> i * 10000]
HundredSecondsReversed == [i \in 1..100 |-> (101 - i) * 10000]

PercentileInputs ==
  UNION {[1..n -> {4, 15, 1000}] : n \in 0..MaxData}
    \cup {HundredSeconds, HundredSecondsReversed}

InitPercentile ==
  /\ input = [scorer |-> "none", data |-> <<>>]
  /\ txnRes = <<>>
  /\ qRes = <<>>
  /\ clock = 0
  /\ InitAuditIdle
  /\ pct \in [data : PercentileInputs, returned : {<<>>}, reported : {<<>>}]
  /\ monitor = <<>>
  /\ recorded = <<>>
  /\ metrics = <<>>
  /\ threads = <<>>
  /\ tail = <<>>
  /\ batch = <<>>
  /\ collection = <<>>
  /\ dash = <<>>

PercentileFrame ==
  UNCHANGED <<riskVars, auditVars, clock, batchVars, threadVars, monitor, recorded,
              metrics, dashVars>>

\* lines 179-185: _percentile is called on the list
CallPercentile ==
  /\ \E percentile \in {95, 99} :
       pct' = [pct EXCEPT !.returned =
                 (percentile :> _percentile(pct.data, percentile)) @@ @]
  /\ PercentileFrame

\* lines 74-82: get_metrics reports the statistics of the list as query_time
ReportQueryTime ==
  /\ pct.data # <<>>
  /\ \E block \in QueryTimeBlocks(pct.data) :
       pct' = [pct EXCEPT !.reported = <<block>>]
  /\ PercentileFrame

NextPercentile == CallPercentile \/ ReportQueryTime

SpecPercentile == InitPercentile /\ [][NextPercentile]_vars

-----------------------------------------------------------------------------
(* Properties of the performance monitor *)

\* x is the element at index (counted from 0) of data sorted ascending
IsAtSortedIndex(x, data, index) ==
  /\ x \in Range(data)
  /\ Cardinality({k \in DOMAIN data : data[k] < x}) <= index
  /\ index < Cardinality({k \in DOMAIN data : data[k] <= x})

\* min(floor(p * n / 100), n - 1)
PercentileIndex(p, n) == Min((p * n) \div 100, n - 1)

\* the window the monitor keeps for a class
WindowOf(m, class) ==
  CASE class = "query" -> m.query_times
    [] class = "embedding" -> m.embedding_times
    [] class = "search" -> m.search_times
    [] class = "llm" -> m.llm_times

\* C15: after any sequence of record_*_time calls each of the four windows has
\* at most history_size elements and holds the last min(n, history_size) of
\* the n durations recorded for its class, in recording order.
C15_WindowsAreFifo ==
  \A class \in Classes :
    LET window == WindowOf(monitor, class)
        n == Len(recorded[class])
    IN /\ Len(window) <= monitor.history_size
       /\ window = LastN(recorded[class], Min(n, monitor.history_size))

\* Three durations were recorded into a window of capacity 2 and the oldest,
\* which differs from the others, has left it.
C15_Witness ==
  /\ monitor.history_size = 2
  /\ Len(recorded.query) = 3
  /\ recorded.query[1] # recorded.query[2]
  /\ monitor.query_times = <<recorded.query[2], recorded.query[3]>>

\* C16 as stated: for a non-empty window and p in {95, 99} the reported
\* percentile is the element at index min(floor(p * n / 100), n - 1) of the
\* samples sorted ascending.
C16_ReportedIsElement ==
  pct.reported # <<>> =>
    /\ IsAtSortedIndex(pct.reported[1].p95, pct.data,
                       PercentileIndex(95, Len(pct.data)))
    /\ IsAtSortedIndex(pct.reported[1].p99, pct.data,
                       PercentileIndex(99, Len(pct.data)))

\* C16: for a non-empty window and p in {95, 99}, _percentile returns the
\* element at index min(floor(p * n / 100), n - 1) of the samples sorted
\* ascending, and get_metrics reports that element rounded to three decimals;
\* for the window [1, ..., 100] seconds these are the elements at index 95
\* (96 s) and at index 99 (100 s).
C16_PercentileRounded ==
  /\ \A p \in DOMAIN pct.returned :
       pct.data # <<>> =>
         IsAtSortedIndex(pct.returned[p], pct.data, PercentileIndex(p, Len(pct.data)))
  /\ pct.reported # <<>> =>
       \E x, y \in Range(pct.data) :
         /\ IsAtSortedIndex(x, pct.data, PercentileIndex(95, Len(pct.data)))
         /\ IsAtSortedIndex(y, pct.data, PercentileIndex(99, Len(pct.data)))
         /\ pct.reported[1].p95 % 10 = 0
         /\ pct.reported[1].p99 % 10 = 0
         /\ pct.reported[1].p95 - x \in -5..5
         /\ pct.reported[1].p99 - y \in -5..5
  /\ pct.data \in {HundredSeconds, HundredSecondsReversed} =>
       /\ 95 \in DOMAIN pct.returned => pct.returned[95] = 96 * 10000
       /\ 99 \in DOMAIN pct.returned => pct.returned[99] = 100 * 10000
       /\ pct.reported # <<>> =>
            /\ pct.reported[1].p95 = 96 * 10000
            /\ pct.reported[1].p99 = 100 * 10000

\* Both percentiles of the reversed window [100, ..., 1] seconds were computed
\* and reported.
C16_Witness ==
  /\ pct.data = HundredSecondsReversed
  /\ DOMAIN pct.returned = {95, 99}
  /\ pct.returned[95] = 960000
  /\ pct.reported # <<>>
  /\ pct.reported[1].p99 = 1000000

SixStatistics == {"avg", "median", "min", "max", "p95", "p99"}

BlockKey(class) ==
  CASE class = "query" -> "query_time"
    [] class = "embedding" -> "embedding_time"
    [] class = "search" -> "search_time"
    [] class = "llm" -> "llm_time"

\* C17 as stated: get_metrics returns a block for a class if and only if the
\* window of the class is non-empty, and every block holds all six statistics.
C17_SixStatisticsPerBlock ==
  metrics.op = "get_metrics" =>
    \A class \in Classes :
      /\ BlockKey(class) \in DOMAIN metrics.value
           <=> WindowOf(metrics.monitor, class) # <<>>
      /\ BlockKey(class) \in DOMAIN metrics.value =>
           DOMAIN metrics.value[BlockKey(class)] = SixStatistics

\* C17: get_metrics returns a block for a class if and only if the window of
\* the class is non-empty; the query_time block holds avg, median, min, max,
\* p95 and p99, and the embedding_time, search_time and llm_time blocks hold
\* avg and median only.
C17_BlocksOfNonEmptyWindows ==
  metrics.op = "get_metrics" =>
    \A class \in Classes :
      /\ BlockKey(class) \in DOMAIN metrics.value
           <=> WindowOf(metrics.monitor, class) # <<>>
      /\ BlockKey(class) \in DOMAIN metrics.value =>
           DOMAIN metrics.value[BlockKey(class)] =
             IF class = "query" THEN SixStatistics ELSE {"avg", "median"}

\* The metrics were read with query and embedding times recorded and no
\* search or LLM times.
C17_Witness ==
  /\ metrics.op = "get_metrics"
  /\ metrics.monitor.query_times # <<>>
  /\ metrics.monitor.embedding_times # <<>>
  /\ metrics.monitor.search_times = <<>>
  /\ metrics.monitor.llm_times = <<>>
  /\ {"query_time", "embedding_time"} \subseteq DOMAIN metrics.value
  /\ "search_time" \notin DOMAIN metrics.value

\* C18 as stated: with h hits and m misses, get_metrics reports
\* cache_hit_rate = 100 * h / (h + m) when h + m > 0 and 0 otherwise, within
\* [0, 100]; 3 hits and 1 miss give 75.0.
C18_ExactHitRate ==
  metrics.op = "get_metrics" =>
    LET h == metrics.monitor.cache_hits
        m == metrics.monitor.cache_misses
        rate == metrics.value.cache_hit_rate
    IN /\ h + m > 0 => rate * (h + m) = 100 * 100 * h
       /\ h + m = 0 => rate = 0
       /\ rate \in 0..(100 * 100)
       /\ (h = 3 /\ m = 1) => rate = 75 * 100

\* C18: with h hits and m misses, get_metrics reports 100 * h / (h + m)
\* rounded to two decimals when h + m > 0 and 0 otherwise, within [0, 100];
\* 3 hits and 1 miss give 75.0.
C18_RoundedHitRate ==
  metrics.op = "get_metrics" =>
    LET h == metrics.monitor.cache_hits
        m == metrics.monitor.cache_misses
        rate == metrics.value.cache_hit_rate
        exact == 100 * 100 * h
    IN /\ h + m > 0 => /\ 2 * (rate * (h + m) - exact) <= h + m
                        /\ 2 * (exact - rate * (h + m)) <= h + m
       /\ h + m = 0 => rate = 0
       /\ rate \in 0..(100 * 100)
       /\ (h = 3 /\ m = 1) => rate = 75 * 100

\* The metrics were read after 3 hits and 1 miss.
C18_Witness ==
  /\ metrics.op = "get_metrics"
  /\ recorded.hits = 3
  /\ recorded.misses = 1
  /\ metrics.monitor.cache_hits = 3
  /\ metrics.monitor.cache_misses = 1
  /\ metrics.value.cache_hit_rate = 7500



-----------------------------------------------------------------------------
(* compliance_dashboard.py: ComplianceDashboard                             *)
(*                                                                          *)
(* A confidence is a number of ten-thousandths (0.9 is 9000), an average    *)
(* risk a number of hundredths, and a score or score component a number of  *)
(* thousandths of a point, so that the sums are exact and the roundings to  *)
(* two decimals and to one decimal show.                                    *)

MaxIndexed == 1       \* documents indexed after the dashboard was constructed
MaxDashQueries == 2   \* queries logged while the dashboard is in use

\* source names of the chunks in the vector store
RbiSource == <<"R","B","I","_","k","y","c">>
SebiSource == <<"s","e","b","i">>
FatfSource == <<"f","a","t","f">>
GdprSource == <<"g","d","p","r">>
OtherSource == <<"n","o","t","e","s">>

rbi == <<"r","b","i">>
sebi == <<"s","e","b","i">>
fatf == <<"f","a","t","f">>
gdpr == <<"g","d","p","r">>

Regulations == <<"RBI", "SEBI", "FATF", "GDPR", "Other">>

RegulationOf_LastTag(source) ==
  LET source_lower == lower(source)
  IN IF In(gdpr, source_lower) THEN "GDPR"
     ELSE IF In(fatf, source_lower) THEN "FATF"
     ELSE IF In(sebi, source_lower) THEN "SEBI"
     ELSE IF In(rbi, source_lower) THEN "RBI"
     ELSE "Other"

\* lines 50-61: the regulation a source counts for
RegulationOf(source) ==
  LET source_lower == lower(source)
  IN IF In(rbi, source_lower) THEN "RBI"
     ELSE IF In(sebi, source_lower) THEN "SEBI"
     ELSE IF In(fatf, source_lower) THEN "FATF"
     ELSE IF In(gdpr, source_lower) THEN "GDPR"
     ELSE "Other"

\* the sum of f over the finite set S
RECURSIVE SumOver(_, _)
SumOver(S, f) ==
  IF S = {} THEN 0
  ELSE LET x == CHOOSE y \in S : TRUE IN f[x] + SumOver(S \ {x}, f)

\* lines 20-89: sources is the count of chunks per source that lines 33-39
\* compute from the metadatas; failed says that collection.get() raised
get_document_coverage(sources, failed, now) ==
  IF failed
  THEN [error |-> "str(e)", total_documents |-> 0, coverage_by_regulation |-> <<>>,
        last_updated |-> isoformat(now)]
  ELSE IF DOMAIN sources = {}
  THEN [total_documents |-> 0, coverage_by_regulation |-> <<>>,
        last_updated |-> isoformat(now)]
  ELSE LET coverage ==
             [reg \in Range(Regulations) |->
                SumOver({src \in DOMAIN sources : RegulationOf(src) = reg}, sources)]
           coverage_percent ==
             [reg \in Range(Regulations) |->
                IF coverage[reg] > 0 THEN Min(coverage[reg], 100) ELSE 0]
       IN [total_documents |-> Cardinality(DOMAIN sources),
           total_chunks |-> SumOver(Range(Regulations), coverage),
           coverage_by_regulation |-> coverage,
           coverage_percentage |-> coverage_percent,
           document_list |-> DOMAIN sources,
           last_updated |-> isoformat(now)]

\* the sum of the numbers that dict.get(key, 0) finds in the entries
RECURSIVE SumOfField(_, _)
SumOfField(entries, key) ==
  IF entries = <<>> THEN 0
  ELSE ItemGet(Head(entries), key, PyInt(0))[2] + SumOfField(Tail(entries), key)

\* lines 91-120: the dicts get_query_statistics can return
get_query_statistics_results(audit_logger, now) ==
  IF ~audit_logger THEN {[error |-> "Audit logger not configured"]}
  ELSE LET stats == get_statistics_value(now)
           recent_queries == _read_log("query", PyNone, 100)
           n == Len(recent_queries)
           high_risk_count ==
             Len(SelectSeq(recent_queries,
                           LAMBDA q : ItemGet(q, "risk_score", PyInt(0))[2] >= 70))
       IN IF recent_queries = <<>> THEN {stats}
          ELSE {stats @@ [avg_confidence_score |-> c, avg_risk_score |-> r,
                          high_risk_queries |-> high_risk_count,
                          recent_query_count |-> n] :
                  c \in Roundings(SumOfField(recent_queries, "confidence_score"), n, 100),
                  r \in Roundings(100 * SumOfField(recent_queries, "risk_score"), n, 1)}

score_components_DefaultRisk(coverage, query_stats) ==
  (IF "coverage_percentage" \in DOMAIN coverage
   THEN <<(400 * SumOver(DOMAIN coverage.coverage_percentage,
                         coverage.coverage_percentage))
            \div Cardinality(DOMAIN coverage.coverage_percentage)>>
   ELSE <<>>)
  \o (IF "avg_confidence_score" \in DOMAIN query_stats
      THEN <<3 * query_stats.avg_confidence_score>>
      ELSE <<>>)
  \o (IF "avg_risk_score" \in DOMAIN query_stats
      THEN <<3 * (100 * 100 - query_stats.avg_risk_score)>>
      ELSE <<3 * 100 * 100>>)

\* lines 127-143: the list of the weighted components that are available
score_components(coverage, query_stats) ==
  (IF "coverage_percentage" \in DOMAIN coverage
   THEN <<(400 * SumOver(DOMAIN coverage.coverage_percentage,
                         coverage.coverage_percentage))
            \div Cardinality(DOMAIN coverage.coverage_percentage)>>
   ELSE <<>>)
  \o (IF "avg_confidence_score" \in DOMAIN query_stats
      THEN <<3 * query_stats.avg_confidence_score>>
      ELSE <<>>)
  \o (IF "avg_risk_score" \in DOMAIN query_stats
      THEN <<3 * (100 * 100 - query_stats.avg_risk_score)>>
      ELSE <<>>)

\* lines 147-159
StatusOf(overall_score) ==
  IF overall_score >= 80 * 1000 THEN [status |-> "EXCELLENT", color |-> "green"]
  ELSE IF overall_score >= 60 * 1000 THEN [status |-> "GOOD", color |-> "yellow"]
  ELSE IF overall_score >= 40 * 1000 THEN [status |-> "FAIR", color |-> "orange"]
  ELSE [status |-> "NEEDS IMPROVEMENT", color |-> "red"]

\* lines 122-171: the dicts get_compliance_score can return
get_compliance_score_results(coverage, query_stats, now) ==
  LET components == score_components(coverage, query_stats)
      overall_score == sum(components)
      level == StatusOf(overall_score)
      component(i) == IF Len(components) >= i THEN components[i] ELSE 0
  IN {[overall_score |-> o, status |-> level.status, status_color |-> level.color,
       components |-> [document_coverage |-> c1, query_confidence |-> c2,
                       risk_management |-> c3],
       timestamp |-> isoformat(now)] :
        o \in Roundings(overall_score, 1, 100),
        c1 \in Roundings(component(1), 1, 100),
        c2 \in Roundings(component(2), 1, 100),
        c3 \in Roundings(component(3), 1, 100)}

\* the collections a dashboard is constructed on: source -> number of chunks
Collections ==
  { <<>>,
    (RbiSource :> 12),
    (RbiSource :> 100) @@ (SebiSource :> 100) @@ (FatfSource :> 100)
      @@ (GdprSource :> 100),
    (OtherSource :> 150) }

\* a logged query with its confidence and its risk score
DashboardQueryArgs ==
  { [user_id |-> PyStr(<<"u">>), query |-> PyStr(<<"a","b">>),
     answer |-> Text("KYC requirements include...", 27), sources |-> <<>>,
     confidence |-> PyFloat(c), risk_score |-> r, metadata |-> PyNone] :
      <<c, r>> \in {<<3000, 0>>, <<9000, 20>>, <<8744, 75>>} }

\* lines 15-18: a dashboard constructed on a collection, with or without an
\* audit logger, whose logs are empty
InitDashboard ==
  /\ input = [scorer |-> "none", data |-> <<>>]
  /\ txnRes = <<>>
  /\ qRes = <<>>
  /\ clock = 0
  /\ InitAuditIdle
  /\ collection \in [sources : Collections, indexed : {0}]
  /\ dash \in [audit_logger : BOOLEAN, op : {"none"}]
  /\ monitor = <<>>
  /\ recorded = <<>>
  /\ metrics = <<>>
  /\ pct = <<>>
  /\ threads = <<>>
  /\ tail = <<>>
  /\ batch = <<>>

\* a document is indexed: chunks of its source are added to the collection
IndexChunks ==
  /\ collection.indexed < MaxIndexed
  /\ \E <<source, chunks>> \in {<<RbiSource, 100>>, <<OtherSource, 12>>} :
       collection' =
         [sources |-> (source :> (IF source \in DOMAIN collection.sources
                                  THEN collection.sources[source] ELSE 0) + chunks)
                        @@ collection.sources,
          indexed |-> collection.indexed + 1]
  /\ UNCHANGED <<riskVars, auditVars, clock, batchVars, threadVars, monitorVars, dash>>

\* a query is answered and logged
DashboardLogQuery ==
  /\ dash.audit_logger
  /\ Len(written["query"]) < MaxDashQueries
  /\ \E a \in DashboardQueryArgs : log_query(a)

\* lines 122-171
get_compliance_score ==
  /\ \E failed \in BOOLEAN :
       LET coverage == get_document_coverage(collection.sources, failed, clock) IN
       \E query_stats \in get_query_statistics_results(dash.audit_logger, clock) :
         \E value \in get_compliance_score_results(coverage, query_stats, clock) :
           dash' = [audit_logger |-> dash.audit_logger,
                    op |-> "get_compliance_score",
                    value |-> value,
                    coverage |-> coverage,
                    query_stats |-> query_stats,
                    queries |-> files["query"]]
  /\ UNCHANGED <<riskVars, auditVars, clock, batchVars, threadVars, monitorVars,
                 collection>>

NextDashboard == IndexChunks \/ DashboardLogQuery \/ get_compliance_score

SpecDashboard == InitDashboard /\ [][NextDashboard]_vars



\* get_compliance_score has returned
ScoreReturned == dash.op = "get_compliance_score"

\* the coverage percentages summed over the five categories, where they are
\* available
CoverageSum ==
  SumOver(DOMAIN dash.coverage.coverage_percentage, dash.coverage.coverage_percentage)

CoverageAvailable == "coverage_percentage" \in DOMAIN dash.coverage

QueryStatsAvailable == "avg_confidence_score" \in DOMAIN dash.query_stats

\* the queries the statistics were taken over
QueriesRead == SliceFrom(ReadEntries(dash.queries, PyNone), 0 - 100)

\* C19 as stated: the reported score is, to its one decimal, the sum of
\* 0.4 * (mean coverage percentage) when coverage is available and of
\* 0.3 * 100 * (mean confidence) and 0.3 * (100 - mean risk) of the logged
\* queries when query statistics are available, and 0 with no component.
C19_WeightedSumOfMeans ==
  ScoreReturned =>
    LET n == IF QueryStatsAvailable THEN Len(QueriesRead) ELSE 1
        fromCoverage == IF CoverageAvailable THEN 80 * CoverageSum * n ELSE 0
        fromQueries ==
          IF QueryStatsAvailable
          THEN 3 * SumOfField(QueriesRead, "confidence_score")
               + 300 * (100 * n - SumOfField(QueriesRead, "risk_score"))
          ELSE 0
    IN dash.value.overall_score \in Roundings(fromCoverage + fromQueries, n, 100)

\* C19, amended: the reported score is, to its one decimal, the sum of the
\* available components, 0.4 * (mean coverage percentage) when coverage
\* percentages are available, plus 0.3 * 100 * avg_confidence_score and
\* 0.3 * (100 - avg_risk_score) when get_query_statistics reports these two
\* means, which it has rounded to two decimals; a missing component adds
\* nothing and the others keep their weights, with no component the score is
\* 0, and coverage 80, confidence 0.9 and risk 20 give 83.
C19_WeightedSumOfReportedMeans ==
  ScoreReturned =>
    LET fromCoverage == IF CoverageAvailable THEN 80 * CoverageSum ELSE 0
        fromQueries ==
          IF QueryStatsAvailable
          THEN 3 * dash.query_stats.avg_confidence_score
               + 3 * (10000 - dash.query_stats.avg_risk_score)
          ELSE 0
    IN /\ dash.value.overall_score \in Roundings(fromCoverage + fromQueries, 1, 100)
       /\ QueryStatsAvailable =>
            /\ dash.query_stats.avg_confidence_score
                 \in Roundings(SumOfField(QueriesRead, "confidence_score"),
                               Len(QueriesRead), 100)
            /\ dash.query_stats.avg_risk_score
                 \in Roundings(100 * SumOfField(QueriesRead, "risk_score"),
                               Len(QueriesRead), 1)
       /\ QueryStatsAvailable <=> dash.audit_logger /\ dash.queries # <<>>
       /\ ~CoverageAvailable /\ ~QueryStatsAvailable => dash.value.overall_score = 0
       /\ (/\ CoverageAvailable /\ CoverageSum = 5 * 80
           /\ QueryStatsAvailable
           /\ dash.query_stats.avg_confidence_score = 9000
           /\ dash.query_stats.avg_risk_score = 2000)
            => dash.value.overall_score = 83 * 1000

\* the scenario of the claim: coverage 80, confidence 0.9, risk 20, score 83
C19_Witness ==
  /\ ScoreReturned
  /\ CoverageAvailable /\ CoverageSum = 5 * 80
  /\ QueryStatsAvailable
  /\ dash.query_stats.avg_confidence_score = 9000
  /\ dash.query_stats.avg_risk_score = 2000
  /\ dash.value.overall_score = 83 * 1000

\* C20: in every result of get_compliance_score the status is the band of
\* the overall_score that the same result reports: EXCELLENT from 80, GOOD in
\* [60, 80), FAIR in [40, 60), NEEDS IMPROVEMENT below 40.
C20_StatusIsBandOfReportedScore ==
  ScoreReturned =>
    /\ dash.value.status = "EXCELLENT" <=> dash.value.overall_score >= 80000
    /\ dash.value.status = "GOOD" <=>
         dash.value.overall_score >= 60000 /\ dash.value.overall_score < 80000
    /\ dash.value.status = "FAIR" <=>
         dash.value.overall_score >= 40000 /\ dash.value.overall_score < 60000
    /\ dash.value.status = "NEEDS IMPROVEMENT" <=> dash.value.overall_score < 40000

\* C27: in every result of get_compliance_score each named component holds,
\* to its one decimal, the sub-score of its name: document_coverage is
\* 0.4 * (mean coverage), or 0 without coverage; query_confidence is
\* 0.3 * 100 * (mean confidence) and risk_management is 0.3 * (100 - mean risk),
\* or 0 without query statistics; and the three add up to the overall score,
\* to the decimals that the four roundings leave.
C27_ComponentsHoldOwnSubscore ==
  ScoreReturned =>
    LET c == dash.value.components
        total == c.document_coverage + c.query_confidence + c.risk_management
    IN /\ c.document_coverage
            \in Roundings(IF CoverageAvailable THEN 80 * CoverageSum ELSE 0, 1, 100)
       /\ c.query_confidence
            \in Roundings(IF QueryStatsAvailable
                          THEN 3 * dash.query_stats.avg_confidence_score ELSE 0,
                          1, 100)
       /\ c.risk_management
            \in Roundings(IF QueryStatsAvailable
                          THEN 3 * (10000 - dash.query_stats.avg_risk_score) ELSE 0,
                          1, 100)
       /\ total - dash.value.overall_score \in -200..200



-----------------------------------------------------------------------------
(* api_server.py: query_documents, and app_enhanced.py: the chat input of   *)
(* main. Each handles one query: it scores the query's risk, retrieves the  *)
(* nearest chunks, records the query time, logs the query and, for a query  *)
(* that requires an alert, logs the alert.                                  *)
(*                                                                          *)
(* A distance and a similarity are numbers of ten-thousandths.              *)

MaxServed == 2   \* queries handled by the serving layer

Handlers == {"api_server", "app_enhanced"}

\* the queries sent: one without risk keywords, one with five high-risk ones
KycRulesQuery == <<"k","y","c"," ","r","u","l","e","s">>
SanctionsQuery ==
  <<"s","a","n","c","t","i","o","n"," ","f","r","a","u","d"," ","o","f","f","s","h","o","r","e"," ","p","e","p"," ","b","l","a","c","k","l","i","s","t">>
ServedQueries == {KycRulesQuery, SanctionsQuery}

\* api_server.py line 188, app_enhanced.py line 807: analyze_query_risk(query)
ServedRisk == [query \in ServedQueries |-> analyze_query_risk(query)]

\* the distances collection.query returns for the chunks it finds; the
\* store fixes their range, not the handlers
Distances == {0, 2500, 15000}

\* what collection.query returns on a collection: nothing on an empty one,
\* else chunks of the indexed sources with their distances
QueryResults(sources) ==
  IF DOMAIN sources = {} THEN {<<>>}
  ELSE {<<[source |-> src, distance |-> d]>> : src \in DOMAIN sources, d \in Distances}
       \cup {<<[source |-> src, distance |-> 2500], [source |-> src2, distance |-> 15000]>> :
               src \in DOMAIN sources, src2 \in DOMAIN sources}

api_similarity_Clamped(distance) == Max(10000 - distance, 0)

\* api_server.py line 206
api_similarity(distance) == 10000 - distance

\* app_enhanced.py lines 376-377: 1 / (1 + distance), exact on Distances
enhanced_similarity(distance) == (10000 * 10000) \div (10000 + distance)

\* api_server.py lines 200-207, app_enhanced.py lines 373-384
context_chunks_of(handler, results) ==
  [i \in DOMAIN results |->
     [source |-> results[i].source,
      similarity |-> IF handler = "api_server"
                     THEN api_similarity(results[i].distance)
                     ELSE enhanced_similarity(results[i].distance)]]

\* api_server.py lines 213-224, app_enhanced.py lines 496-507: the first chunk
\* of every source
RECURSIVE extract_sources(_, _)
extract_sources(context_chunks, seen) ==
  IF context_chunks = <<>> THEN <<>>
  ELSE LET chunk == Head(context_chunks)
       IN IF chunk.source \in seen
          THEN extract_sources(Tail(context_chunks), seen)
          ELSE << << <<"filename", PyStr(chunk.source)>>,
                     <<"similarity", PyFloat(chunk.similarity)>> >> >>
               \o extract_sources(Tail(context_chunks), seen \cup {chunk.source})

\* api_server.py line 226, app_enhanced.py line 510; the division is exact
\* on the similarities of Distances
avg_confidence(handler, sources) ==
  IF sources # <<>>
  THEN PyFloat(SumOfField(sources, "similarity") \div Len(sources))
  ELSE IF handler = "api_server" THEN PyInt(0) ELSE PyFloat(0)

\* ', '.join(keywords)
RECURSIVE Join(_)
Join(keywords) ==
  IF keywords = <<>> THEN <<>>
  ELSE IF Len(keywords) = 1 THEN Head(keywords)
  ELSE Head(keywords) \o <<",", " ">> \o Join(Tail(keywords))

HIGH_RISK_QUERY == PyStr(<<"H","I","G","H","_","R","I","S","K","_","Q","U","E","R","Y">>)

\* api_server.py lines 233-240, app_enhanced.py lines 827-835
ServedQueryArgs(handler, query, query_risk, sources) ==
  [user_id |-> IF handler = "api_server" THEN PyStr(<<"api_user">>)
               ELSE PyStr(<<"demo_user">>),
   query |-> PyStr(query),
   answer |-> Text("answer", 27),
   sources |-> sources,
   confidence |-> avg_confidence(handler, sources),
   risk_score |-> query_risk.risk_score,
   metadata |-> IF handler = "api_server" THEN PyNone
                ELSE PyDict(<< <<"query_time", PyFloat(4)>> >>)]

\* the alert of lines 244-249 and 839-845 without the ID of its query
ServedAlertArgs_WithoutQueryId(handler, query_risk, query_id) ==
  [alert_type |-> HIGH_RISK_QUERY,
   severity |-> PyStr("HIGH"),
   message |-> PyStr(<<"High-risk keywords: ">> \o Join(query_risk.keywords_found)),
   query_id |-> PyNone,
   user_id |-> PyNone,
   metadata |-> PyNone]

\* api_server.py lines 244-249, app_enhanced.py lines 839-845
ServedAlertArgs(handler, query_risk, query_id) ==
  [alert_type |-> HIGH_RISK_QUERY,
   severity |-> PyStr("HIGH"),
   message |-> PyStr((IF handler = "api_server"
                      THEN <<"High-risk keywords: ">>
                      ELSE <<"High-risk keywords detected: ">>)
                     \o Join(query_risk.keywords_found)),
   query_id |-> query_id,
   user_id |-> IF handler = "api_server" THEN PyNone ELSE PyStr(<<"demo_user">>),
   metadata |-> PyNone]

\* api_server.py line 230, app_enhanced.py lines 809-823: the times recorded
\* for one query (the enhanced app also times the search and the answer)
ServedTimes(handler, m) ==
  [m EXCEPT
     !.query_times = DequeAppend(@, 4, m.history_size),
     !.total_queries = @ + 1,
     !.search_times = IF handler = "app_enhanced"
                      THEN DequeAppend(@, 4, m.history_size) ELSE @,
     !.llm_times = IF handler = "app_enhanced"
                   THEN DequeAppend(@, 4, m.history_size) ELSE @]

\* where a handled query ended: both appends done, or an append raised
\* OSError (api_server turns it into HTTPException(500) at line 262, the
\* enhanced app lets it leave the script run)
Outcomes == {"returned", "log_query raised", "log_alert raised"}

\* api_server.py lines 182-263, app_enhanced.py lines 803-860
HandleQuery(handler, query, results, outcome) ==
  LET query_risk == ServedRisk[query]
      sources == extract_sources(context_chunks_of(handler, results), {})
      qa == ServedQueryArgs(handler, query, query_risk, sources)
      query_entry == query_log_entry(qa, clock)
      query_id == query_entry[1][2]
      aa == ServedAlertArgs(handler, query_risk, query_id)
      alert_entry == alert_log_entry(aa, clock)
      alerting == query_risk.requires_alert
      query_call(value) == [op |-> "log_query", args |-> qa, now |-> clock,
                            value |-> value]
      alert_call(value) == [op |-> "log_alert", args |-> aa, now |-> clock,
                            value |-> value]
  IN /\ monitor' = ServedTimes(handler, monitor)
     /\ \/ /\ outcome = "returned"
           /\ files' = [files EXCEPT
                          !["query"] = Append(@, json_dumps(query_entry)),
                          !["alert"] = IF alerting
                                       THEN Append(@, json_dumps(alert_entry))
                                       ELSE @]
           /\ written' = [written EXCEPT
                            !["query"] = Append(@, query_entry),
                            !["alert"] = IF alerting THEN Append(@, alert_entry)
                                         ELSE @]
           /\ calls' = calls \o <<query_call(query_id)>>
                         \o (IF alerting THEN <<alert_call(alert_entry[1][2])>>
                             ELSE <<>>)
           /\ nops' = nops + (IF alerting THEN 2 ELSE 1)
           /\ ret' = [op |-> "handle_query", handler |-> handler, raised |-> FALSE]
        \/ /\ outcome = "log_query raised"
           /\ \E torn \in BOOLEAN :
                files' = [files EXCEPT
                            !["query"] = IF torn THEN Append(@, TornLine) ELSE @]
           /\ calls' = Append(calls, query_call(Raised("OSError")))
           /\ nops' = nops + 1
           /\ ret' = [op |-> "handle_query", handler |-> handler, raised |-> TRUE]
           /\ UNCHANGED written
        \/ /\ outcome = "log_alert raised"
           /\ alerting
           /\ \E torn \in BOOLEAN :
                files' = [files EXCEPT
                            !["query"] = Append(@, json_dumps(query_entry)),
                            !["alert"] = IF torn THEN Append(@, TornLine) ELSE @]
           /\ written' = [written EXCEPT !["query"] = Append(@, query_entry)]
           /\ calls' = calls \o <<query_call(query_id), alert_call(Raised("OSError"))>>
           /\ nops' = nops + 2
           /\ ret' = [op |-> "handle_query", handler |-> handler, raised |-> TRUE]
     /\ UNCHANGED <<riskVars, clock, exported, batchVars, threadVars, recorded,
                    metrics, pct, dashVars>>

\* queries handled so far
Served == monitor.total_queries

\* the serving layer at startup: PerformanceMonitor() and AuditLogger on
\* empty logs (api_server.py lines 103-106, app_enhanced.py lines 575-592),
\* and the collection as it was left
InitServing ==
  /\ input = [scorer |-> "none", data |-> <<>>]
  /\ txnRes = <<>>
  /\ qRes = <<>>
  /\ clock = 0
  /\ InitAuditIdle
  /\ collection \in [sources : {<<>>, (RbiSource :> 12), (OtherSource :> 150)},
                     indexed : {0}]
  /\ dash = [audit_logger |-> TRUE, op |-> "none"]
  /\ monitor = [history_size |-> 1000, query_times |-> <<>>,
                embedding_times |-> <<>>, search_times |-> <<>>, llm_times |-> <<>>,
                total_queries |-> 0, cache_hits |-> 0, cache_misses |-> 0,
                start_time |-> 0]
  /\ recorded = <<>>
  /\ metrics = <<>>
  /\ pct = <<>>
  /\ threads = <<>>
  /\ tail = <<>>
  /\ batch = <<>>

\* a query is handled and answered
ServeQuery ==
  /\ Served < MaxServed
  /\ \E handler \in Handlers, query \in ServedQueries,
        results \in QueryResults(collection.sources) :
       /\ Len(results) <= 1
       /\ results # <<>> => results[1].distance = 2500
       /\ HandleQuery(handler, query, results, "returned")

\* a query is handled and an append to the audit log fails
ServeQueryFailing ==
  /\ Served < MaxServed
  /\ \E handler \in Handlers, query \in ServedQueries,
        results \in QueryResults(collection.sources),
        outcome \in Outcomes \ {"returned"} :
       /\ Len(results) <= 1
       /\ results # <<>> => results[1].distance = 0
       /\ HandleQuery(handler, query, results, outcome)

NextServing == ServeQuery \/ ServeQueryFailing

SpecServing == InitServing /\ [][NextServing]_vars

\* the records that a read-back finds in the query partition, and the
\* HIGH_RISK_QUERY alerts that it finds in the alert partition
QueryRecords(fs) == ReadEntries(fs["query"], PyNone)
HighRiskAlerts(fs) ==
  SelectSeq(ReadEntries(fs["alert"], PyNone),
            LAMBDA a : ItemGet(a, "alert_type", PyNone) = HIGH_RISK_QUERY)

\* the calls of the audit logger that returned
ReturnedCalls(op) ==
  {i \in DOMAIN calls : calls[i].op = op /\ calls[i].value[1] # "raise"}

\* C29: a query that the serving layer handles to its end appends exactly one
\* query record and then, exactly when analyze_query_risk returned
\* requires_alert (score >= 50), exactly one HIGH_RISK_QUERY alert with the ID
\* of that record as its query_id; and after any sequence of queries every
\* HIGH_RISK_QUERY alert of the alert partition names a query_id that is in
\* the query partition, was appended after the query record of that ID, and
\* the alerts are no more than the query records.
C29_AlertsFollowQueries ==
  /\ [](/\ \A i \in DOMAIN HighRiskAlerts(files) :
             \E j \in DOMAIN QueryRecords(files) :
               ItemGet(HighRiskAlerts(files)[i], "query_id", PyNone)
                 = ItemGet(QueryRecords(files)[j], "query_id", <<>>)
        /\ \A i \in ReturnedCalls("log_alert") :
             \E j \in ReturnedCalls("log_query") :
               j < i /\ calls[i].args.query_id = calls[j].value
        /\ Len(HighRiskAlerts(files)) = Cardinality(ReturnedCalls("log_alert"))
        /\ Len(HighRiskAlerts(files)) <= Len(QueryRecords(files)))
  /\ [][ (monitor'.total_queries # monitor.total_queries /\ ~ret'.raised) =>
           LET queries == QueryRecords(files')
               alerts == HighRiskAlerts(files')
               record == queries[Len(queries)]
               query_risk == ServedRisk[ItemGet(record, "query", PyNone)[2]]
           IN /\ Len(queries) = Len(QueryRecords(files)) + 1
              /\ query_risk.requires_alert <=> query_risk.risk_score >= 50
              /\ ItemGet(record, "risk_score", PyNone) = PyInt(query_risk.risk_score)
              /\ IF query_risk.requires_alert
                 THEN /\ Len(alerts) = Len(HighRiskAlerts(files)) + 1
                      /\ ItemGet(alerts[Len(alerts)], "query_id", PyNone)
                           = ItemGet(record, "query_id", <<>>)
                      /\ Len(calls') = Len(calls) + 2
                      /\ calls'[Len(calls) + 1].op = "log_query"
                      /\ calls'[Len(calls) + 2].op = "log_alert"
                 ELSE /\ alerts = HighRiskAlerts(files)
                      /\ Len(calls') = Len(calls) + 1 ]_vars

\* both handlers have answered the sanctions query: two query records, two
\* HIGH_RISK_QUERY alerts, each with the ID of its query record
C29_Witness ==
  /\ Len(QueryRecords(files)) = 2
  /\ Len(HighRiskAlerts(files)) = 2
  /\ \A i \in 1..2 :
       /\ ItemGet(HighRiskAlerts(files)[i], "query_id", PyNone)
            = ItemGet(QueryRecords(files)[i], "query_id", <<>>)
       /\ ItemGet(QueryRecords(files)[i], "query", PyNone) = PyStr(SanctionsQuery)
  /\ ItemGet(QueryRecords(files)[1], "user_id", PyNone) = PyStr(<<"api_user">>)
  /\ ItemGet(QueryRecords(files)[2], "user_id", PyNone) = PyStr(<<"demo_user">>)
  /\ ~ret.raised

\* the query endpoint of api_server in front of the dashboard
ApiServeQuery ==
  /\ Served < MaxServed
  /\ \E query \in ServedQueries, results \in QueryResults(collection.sources) :
       /\ Len(results) <= 1
       /\ HandleQuery("api_server", query, results, "returned")

NextServedDashboard == ApiServeQuery \/ get_compliance_score

SpecServedDashboard == InitServing /\ [][NextServedDashboard]_vars

\* C21: get_compliance_score returns 0 <= overall_score <= 100 in every state
\* of the index and of the query log the serving layer produces.
C21_ScoreWithinRange ==
  ScoreReturned =>
    /\ dash.value.overall_score >= 0
    /\ dash.value.overall_score <= 100 * 1000



-----------------------------------------------------------------------------
(* compliance_dashboard.py when a read fails: collection.get() raises, or   *)
(* open() on a partition file of the audit store raises OSError             *)

\* what leaves a call: a returned value, or an exception
Returned(value) == [raised |-> FALSE, value |-> value]
Propagated(e) == [raised |-> TRUE, value |-> [exception |-> e]]

\* audit_logger.py lines 238-244 and 222-236: open(log_file, 'r') has no
\* handler around it; lines 155-173 and 134-140 have none either
get_statistics_outcomes(store_failed, now) ==
  IF store_failed THEN {Propagated("OSError")}
  ELSE {Returned(get_statistics_value(now))}

\* lines 91-120: the calls at lines 96 and 99 stand outside any try
get_query_statistics_outcomes(audit_logger, store_failed, now) ==
  IF ~audit_logger THEN {Returned([error |-> "Audit logger not configured"])}
  ELSE IF \E o \in get_statistics_outcomes(store_failed, now) : o.raised
  THEN {Propagated("OSError")}
  ELSE {Returned(v) : v \in get_query_statistics_results(audit_logger, now)}

\* lines 122-171: the calls at lines 124 and 125 stand outside any try
get_compliance_score_outcomes(sources, audit_logger, index_failed, store_failed, now) ==
  LET coverage == get_document_coverage(sources, index_failed, now)
      stats == get_query_statistics_outcomes(audit_logger, store_failed, now)
  IN UNION {IF o.raised THEN {o}
            ELSE {Returned(v) : v \in get_compliance_score_results(coverage, o.value, now)} :
            o \in stats}

DashboardCalled(op, index_failed, store_failed, outcome) ==
  /\ dash' = [audit_logger |-> dash.audit_logger, op |-> op,
              index_failed |-> index_failed, store_failed |-> store_failed,
              raised |-> outcome.raised, value |-> outcome.value]
  /\ UNCHANGED <<riskVars, auditVars, clock, batchVars, threadVars, monitorVars,
                 collection>>

\* lines 20-89
CallGetDocumentCoverage ==
  \E index_failed \in BOOLEAN :
    DashboardCalled("get_document_coverage", index_failed, FALSE,
                    Returned(get_document_coverage(collection.sources,
                                                   index_failed, clock)))

\* lines 91-120; the read can fail only where there is a logger to read
CallGetQueryStatistics ==
  \E store_failed \in BOOLEAN :
    /\ store_failed => dash.audit_logger
    /\ \E outcome \in get_query_statistics_outcomes(dash.audit_logger,
                                                    store_failed, clock) :
         DashboardCalled("get_query_statistics", FALSE, store_failed, outcome)

\* lines 122-171
CallGetComplianceScore ==
  \E index_failed \in BOOLEAN, store_failed \in BOOLEAN :
    /\ store_failed => dash.audit_logger
    /\ \E outcome \in get_compliance_score_outcomes(collection.sources,
                        dash.audit_logger, index_failed, store_failed, clock) :
         DashboardCalled("get_compliance_score", index_failed, store_failed, outcome)

NextDashboardFailing ==
  \/ IndexChunks
  \/ DashboardLogQuery
  \/ CallGetDocumentCoverage
  \/ CallGetQueryStatistics
  \/ CallGetComplianceScore

SpecDashboardFailing == InitDashboard /\ [][NextDashboardFailing]_vars

\* the counts of a result are zero
ZeroedCounts(value) ==
  /\ "total_documents" \in DOMAIN value => value.total_documents = 0
  /\ "total_chunks" \in DOMAIN value => value.total_chunks = 0
  /\ "total_queries" \in DOMAIN value => value.total_queries = 0
  /\ "overall_score" \in DOMAIN value => value.overall_score = 0

\* C22: whenever reading the document index or the audit store fails,
\* get_document_coverage, get_query_statistics and get_compliance_score
\* return a result with an error marker and zeroed counts, and no exception
\* reaches the caller.
C22_FailureNeverPropagates ==
  (/\ dash.op \in {"get_document_coverage", "get_query_statistics",
                   "get_compliance_score"}
   /\ dash.index_failed \/ dash.store_failed)
    => /\ ~dash.raised
       /\ "error" \in DOMAIN dash.value
       /\ ZeroedCounts(dash.value)



-----------------------------------------------------------------------------
(* compliance_dashboard.py: get_document_coverage on the chunk metadatas    *)
(* that collection.get() returns                                            *)

MaxSources == 2   \* different metadatas among the chunks of a collection

Unknown == <<"U","n","k","n","o","w","n">>

\* the metadata of a chunk, with its source or without one
ChunkMetadatas ==
  { << <<"source", PyStr(src)>> >> :
      src \in {RbiSource, SebiSource, FatfSource, GdprSource, OtherSource,
               <<"S","E","B","I","_","r","b","i">>,
               <<"g","d","p","r","_","F","a","t","f">>} }
    \cup { <<>> }

\* how many chunks carry one metadata
ChunkCounts == {1, 99, 101}

\* results['metadatas'] as a bag: metadata -> number of chunks carrying it
MetadataBags ==
  UNION {[M -> ChunkCounts] : M \in {M \in SUBSET ChunkMetadatas :
                                       Cardinality(M) <= MaxSources}}

\* lines 33-39: the number of chunks of every source
count_by_source(metadatas) ==
  LET source(m) == ItemGet(m, "source", PyStr(Unknown))[2]
  IN [src \in {source(m) : m \in DOMAIN metadatas} |->
        SumOver({m \in DOMAIN metadatas : source(m) = src}, metadatas)]

\* a dashboard on a collection whose chunks carry these metadatas
InitCoverage ==
  /\ input = [scorer |-> "none", data |-> <<>>]
  /\ txnRes = <<>>
  /\ qRes = <<>>
  /\ clock = 0
  /\ InitAuditIdle
  /\ collection \in [metadatas : MetadataBags]
  /\ dash = [audit_logger |-> FALSE, op |-> "none"]
  /\ monitor = <<>>
  /\ recorded = <<>>
  /\ metrics = <<>>
  /\ pct = <<>>
  /\ threads = <<>>
  /\ tail = <<>>
  /\ batch = <<>>

\* lines 20-89 on the metadatas of the collection
CoverageOfMetadatas ==
  DashboardCalled("get_document_coverage", FALSE, FALSE,
                  Returned(get_document_coverage(count_by_source(collection.metadatas),
                                                 FALSE, clock)))

NextCoverage == CoverageOfMetadatas

SpecCoverage == InitCoverage /\ [][NextCoverage]_vars

\* the tags in the order in which a source is tried against them
Tags == <<rbi, sebi, fatf, gdpr>>

\* the category of a chunk: that of the first tag occurring in its source,
\* whatever the case of the letters
CategoryOfChunk(m) ==
  LET name == lower(ItemGet(m, "source", PyStr(Unknown))[2])
      hits == {i \in DOMAIN Tags : In(Tags[i], name)}
  IN IF hits = {} THEN "Other"
     ELSE Regulations[CHOOSE i \in hits : \A j \in hits : i <= j]

\* the number of chunks of the collection in a category
ChunksIn(reg) ==
  SumOver({m \in DOMAIN collection.metadatas : CategoryOfChunk(m) = reg},
          collection.metadatas)

CoverageReturned ==
  /\ dash.op = "get_document_coverage"
  /\ DOMAIN collection.metadatas # {}

\* C23: get_document_coverage counts every chunk in exactly one category, the
\* first of RBI, SEBI, FATF, GDPR whose tag occurs in the chunk's source
\* whatever the case, Other when none occurs; total_chunks is the number of
\* chunk metadata entries and the sum of the five counts; each coverage
\* percentage is min(count, 100).
C23_EveryChunkInOneCategory ==
  CoverageReturned =>
    LET value == dash.value IN
    /\ DOMAIN value.coverage_by_regulation = Range(Regulations)
    /\ \A reg \in Range(Regulations) :
         /\ value.coverage_by_regulation[reg] = ChunksIn(reg)
         /\ value.coverage_percentage[reg] = Min(ChunksIn(reg), 100)
    /\ value.total_chunks = SumOver(DOMAIN collection.metadatas, collection.metadatas)
    /\ value.total_chunks
         = SumOver(Range(Regulations), value.coverage_by_regulation)

\* a source naming two regulations, a source in capitals and a chunk without
\* source have been counted, one category above 100 chunks
C23_Witness ==
  /\ CoverageReturned
  /\ \E m \in DOMAIN collection.metadatas :
       /\ ItemGet(m, "source", PyNone) = PyStr(<<"S","E","B","I","_","r","b","i">>)
       /\ collection.metadatas[m] = 101
  /\ <<>> \in DOMAIN collection.metadatas
  /\ dash.value.coverage_by_regulation["RBI"] = 101
  /\ dash.value.coverage_percentage["RBI"] = 100
  /\ dash.value.coverage_by_regulation["Other"] > 0



-----------------------------------------------------------------------------
(* compliance_dashboard.py: get_query_statistics on a query log that an     *)
(* earlier run has filled                                                   *)

\* the number of records the query log holds when the dashboard is built
ExistingQueries == {0, 1, 99}

\* the n-th query of the earlier run: the first one was risky and badly
\* answered, the later ones were not
NthQuery(n) ==
  [user_id |-> PyStr(<<"u">>), query |-> PyStr(<<"q">>),
   answer |-> Text("answer", 27), sources |-> <<>>,
   confidence |-> PyFloat(IF n = 1 THEN 1000 ELSE 5000),
   risk_score |-> IF n = 1 THEN 90 ELSE 10,
   metadata |-> PyDict(<< <<"n", PyInt(n)>> >>)]

\* the query log of the earlier run, with a torn line after its first
\* record or without one
ExistingQueryLog(n, torn) ==
  LET lines == [i \in 1..n |-> json_dumps(query_log_entry(NthQuery(i), 0))]
  IN IF torn /\ n >= 1
     THEN <<lines[1], TornLine>> \o SubSeq(lines, 2, n)
     ELSE lines

\* lines 15-18: a dashboard with an audit logger whose directory holds the
\* query log of an earlier run
InitQueryStats ==
  /\ input = [scorer |-> "none", data |-> <<>>]
  /\ txnRes = <<>>
  /\ qRes = <<>>
  /\ clock = 0
  /\ \E n \in ExistingQueries, torn \in BOOLEAN :
       /\ written = [k \in Kinds |->
                       IF k = "query"
                       THEN [i \in 1..n |-> query_log_entry(NthQuery(i), 0)]
                       ELSE <<>>]
       /\ files = [k \in Kinds |->
                     IF k = "query" THEN ExistingQueryLog(n, torn) ELSE <<>>]
  /\ calls = <<>>
  /\ exported = [path |-> <<"None">>, data |-> <<>>]
  /\ ret = [op |-> "none"]
  /\ nops = 0
  /\ collection = [sources |-> <<>>, indexed |-> 0]
  /\ dash = [audit_logger |-> TRUE, op |-> "none"]
  /\ monitor = <<>>
  /\ recorded = <<>>
  /\ metrics = <<>>
  /\ pct = <<>>
  /\ threads = <<>>
  /\ tail = <<>>
  /\ batch = <<>>

\* a query is answered and logged on top of the existing log
StatsLogQuery ==
  /\ nops < MaxDashQueries
  /\ \E a \in DashboardQueryArgs : log_query(a)

NextQueryStats == StatsLogQuery \/ CallGetQueryStatistics

SpecQueryStats == InitQueryStats /\ [][NextQueryStats]_vars

\* the well-formed records of the query log, in file order
WellFormedQueries == written["query"]

\* the last min(n, 100) of them
Sampled ==
  LET n == Len(WellFormedQueries)
  IN SubSeq(WellFormedQueries, n - Min(n, 100) + 1, n)

\* the risk scores and the confidences of the sample
SampledRisk(i) == ItemGet(Sampled[i], "risk_score", PyInt(0))[2]
SampledConfidence(i) == ItemGet(Sampled[i], "confidence_score", PyInt(0))[2]

\* the sum of the numbers of a list, taken value by value
SumOfList(xs) ==
  LET values == Range(xs)
  IN SumOver(values, [v \in values |-> v * Cardinality({i \in DOMAIN xs : xs[i] = v})])

StatsReturned ==
  /\ dash.op = "get_query_statistics"
  /\ ~dash.raised
  /\ WellFormedQueries # <<>>

\* C24: for a query log with n well-formed records, the mean confidence, the
\* mean risk and the high-risk count are those of the last min(n, 100)
\* records in file order (the means rounded to two decimals);
\* recent_query_count = min(n, 100); high_risk_queries is the number of
\* sampled records with risk_score >= 70 and never exceeds
\* recent_query_count; older records have no influence.
C24_BoundedSample ==
  [][(/\ dash' # dash
       /\ dash'.op = "get_query_statistics" /\ ~dash'.raised
       /\ WellFormedQueries # <<>>)
       => LET value == dash'.value
              m == Len(Sampled)
              risky == {i \in 1..m : SampledRisk(i) >= 70}
              risks == [i \in 1..m |-> SampledRisk(i)]
              confidences == [i \in 1..m |-> SampledConfidence(i)]
          IN /\ m = Min(Len(WellFormedQueries), 100)
             /\ value.recent_query_count = m
             /\ value.high_risk_queries = Cardinality(risky)
             /\ value.high_risk_queries <= value.recent_query_count
             /\ value.avg_confidence_score \in Roundings(SumOfList(confidences), m, 100)
             /\ value.avg_risk_score \in Roundings(100 * SumOfList(risks), m, 1)]_vars

\* statistics were taken over a log of 101 records: the first, risky, record
\* is outside the sample of 100
C24_Witness ==
  /\ StatsReturned
  /\ Len(WellFormedQueries) = 101
  /\ SampledRisk(1) = 10
  /\ dash.value.recent_query_count = 100
  /\ Len(files["query"]) = 101
  /\ dash.value.total_queries = 101



-----------------------------------------------------------------------------
(* calculate_transaction_risk on inputs that lack fields *)

\* the fields of the input that a rule reads
FieldsRead(rule) ==
  CASE rule = "amount" -> {"amount"}
    [] rule = "velocity" -> {"count_24h"}
    [] rule = "jurisdiction" -> {"country"}
    [] rule = "cash" -> {"is_cash"}
    [] rule = "corporate" -> {"customer_type", "amount"}

\* C25: for every transaction input in which any subset of the fields is
\* absent, calculate_transaction_risk returns, and no rule that reads an
\* absent field adds a flag or adds to the score; an input without fields
\* scores 0, LOW, with no flags.
C25_AbsentFieldNoContribution ==
  \A i \in DOMAIN txnRes :
    LET r == txnRes[i]
        d == input.data
        c == [rule \in {"amount", "velocity", "jurisdiction", "cash", "corporate"} |->
                CASE rule = "amount" -> ContribA(d)
                  [] rule = "velocity" -> ContribV(d)
                  [] rule = "jurisdiction" -> ContribJ(d)
                  [] rule = "cash" -> ContribC(d)
                  [] rule = "corporate" -> ContribK(d)]
        reading == {rule \in DOMAIN c : FieldsRead(rule) \subseteq DOMAIN d}
    IN /\ \A j \in DOMAIN r.flags : FlagRule(r.flags[j]) \in reading
       /\ r.risk_score = Min(SumOver(reading, c), 100)
       /\ DOMAIN d = {} =>
            r.risk_score = 0 /\ r.risk_level = "LOW" /\ r.flags = <<>>

-----------------------------------------------------------------------------
(* audit_logger.py: the logger on a directory where any of the partition   *)
(* files may not have been created yet (lines 222-223, 239-240).           *)

\* lines 16-24: the constructor creates the directory and no partition file;
\* the files found there are those that earlier runs left
InitPartition ==
  /\ input = [scorer |-> "none", data |-> <<>>]
  /\ txnRes = <<>>
  /\ qRes = <<>>
  /\ clock = 0
  /\ files \in {[k \in S |-> <<>>] : S \in SUBSET Kinds}
  /\ written = [k \in Kinds |-> <<>>]
  /\ calls = <<>>
  /\ exported = [path |-> <<"None">>, data |-> <<>>]
  /\ ret = [op |-> "none"]
  /\ nops = 0
  /\ InitServicesIdle

NextPartition ==
  \/ LogQuery
  \/ LogAccess
  \/ LogAlert
  \/ LogDocumentUpload
  \/ InjectCorrupt
  \/ GetQueryHistory
  \/ GetAlerts
  \/ GetStatistics

SpecPartition == InitPartition /\ [][NextPartition]_vars

\* lines 166-169: the key of get_statistics that holds the count of a partition
StatisticOf(k) ==
  CASE k = "query" -> "total_queries"
    [] k = "access" -> "total_access_logs"
    [] k = "alert" -> "total_alerts"
    [] k = "document" -> "total_documents_processed"

\* C26: for every partition, the count that get_statistics reports is the
\* number of lines of the partition file, well-formed or not, and so at least
\* the number of records that an unfiltered read-back with a limit above the
\* number of lines yields; a partition whose file is missing counts 0 and
\* reads back empty, and the operations return.
C26_CountIsNumberOfLines ==
  /\ ret.op = "get_statistics" =>
       \A k \in Kinds :
         LET count == ret.value[StatisticOf(k)]
             read_back == _read_log(k, PyNone, 100)
         IN /\ count = (IF k \in DOMAIN files THEN Len(files[k]) ELSE 0)
            /\ count >= Len(read_back)
            /\ k \notin DOMAIN files => count = 0 /\ read_back = <<>>
  /\ ret.op = "get_query_history" /\ "query" \notin DOMAIN files => ret.value = <<>>
  /\ ret.op = "get_alerts" /\ "alert" \notin DOMAIN files => ret.value = <<>>

\* get_statistics answered on a directory without an alert file and with a
\* query file of one record and one line that does not parse
C26_Witness ==
  /\ ret.op = "get_statistics"
  /\ "alert" \notin DOMAIN files
  /\ ret.value.total_alerts = 0
  /\ "query" \in DOMAIN files
  /\ ret.value.total_queries = 2
  /\ Len(_read_log("query", PyNone, 100)) = 1

=============================================================================
